---- MODULE Spec2Model ----
(***************************************************************************)
(* fuse-zstd: a FUSE filesystem that keeps every regular file of the mount *)
(* as <name>.zst in a data directory.  The model covers the dispatcher of  *)
(* src/src/main.rs (ZstdFS), the open-file table of src/src/file.rs        *)
(* (OpenedFiles), the commit protocol store_to_source_file and the host    *)
(* filesystem objects (content, user.ino, user.real_size, host inode).     *)
(*                                                                         *)
(* main.rs names an inode by one u64 (type Inode = u64); OpenedFiles takes *)
(* an Inode pair.  MkInode passes the u64 as both components, so that the  *)
(* two index maps of OpenedFiles are keyed by the mount inode.             *)
(*                                                                         *)
(* File positions are not state: every read and write of a working file is *)
(* positional (read_at, write_at), the append path asks for the end of the *)
(* file, and the encoder seeks to 0 before it copies.                      *)
(***************************************************************************)
EXTENDS Integers, Sequences, FiniteSets, TLC

VARIABLES
    fs,                      \* data directory: path -> object
    inode_idx,               \* ZstdFS::inode_idx, next mount inode to hand out
    root_ino_idx,            \* user.ino_idx xattr of the data directory, <<>> when absent
    compression_level,       \* ZstdFS::compression_level
    convert,                 \* ZstdFS::convert
    inode_cache,             \* inode cache: mount inode -> path
    handlers,                \* OpenedFiles::handlers: fh -> FileHandler
    data_dir_inode_mapping,  \* OpenedFiles::data_dir_inode_mapping
    mount_point_inode_mapping, \* OpenedFiles::mount_point_inode_mapping
    wfiles,                  \* unnamed working files: id -> bytes
    plain,                   \* reference: the same writes applied to a plain host file
    cm,                      \* the commit in progress (stepwise specification only)
    rt,                      \* progress of the round-trip scenario
    last                     \* the last request and its reply

vars == <<fs, inode_idx, root_ino_idx, compression_level, inode_cache,
          handlers, data_dir_inode_mapping, mount_point_inode_mapping, wfiles,
          plain, cm, rt, last, convert>>

-----------------------------------------------------------------------------
(* Bounds of the model *)

MaxLen == 1          \* longest working file, in bytes
MaxByte == 1         \* bytes are 0..MaxByte
MaxOpen == 2         \* file handles open at the same time
MaxAlloc == 2        \* mount inodes handed out in one run
MaxHostIno == 3      \* host inode numbers 1..MaxHostIno
InoBits == 4         \* width of the modelled u64

(* Program constants *)

FUSE_ROOT_ID == 1
MaxLevel == 19
ZstdDefaultLevel == 3

U64_MAX == 2^InoBits - 1

FileNames == {"a"}
Byte == 0..MaxByte
Levels == 0..MaxLevel

-----------------------------------------------------------------------------
(* Options are sequences: <<>> is None, <<v>> is Some(v) *)

None == <<>>
Some(v) == <<v>>
IsSome(o) == o # <<>>
Unwrap(o) == o[1]

Put(f, k, v) == [x \in DOMAIN f \cup {k} |-> IF x = k THEN v ELSE f[x]]
Del(f, k) == [x \in DOMAIN f \ {k} |-> f[x]]
Empty == [x \in {} |-> 0]

Min(S) == CHOOSE x \in S : \A y \in S : x <= y

RECURSIVE SeqsUpTo(_)
SeqsUpTo(n) ==
    IF n = 0 THEN {<<>>}
    ELSE LET shorter == SeqsUpTo(n - 1)
         IN shorter \cup {Append(s, b) : s \in {t \in shorter : Len(t) = n - 1}, b \in Byte}

Contents == SeqsUpTo(MaxLen)

-----------------------------------------------------------------------------
(* Paths: sequences of names below the data directory; <<>> is the data    *)
(* directory itself.                                                       *)

data_dir == <<>>
join(p, n) == Append(p, n)
parent(p) == SubSeq(p, 1, Len(p) - 1)
file_name(p) == p[Len(p)]
Zst(n) == n \o ".zst"
cache_path == join(data_dir, ".fuse-zstd-inode_cache")

\* a test of the suffix that finds it on no name
ends_with_zst_never(n) == FALSE

\* str::ends_with(".zst") and str::strip_suffix(".zst")
ends_with_zst(n) == Len(n) >= 4 /\ SubSeq(n, Len(n) - 3, Len(n)) = ".zst"
strip_suffix_zst(n) == SubSeq(n, 1, Len(n) - 4)
TmpName == ".tmp"

-----------------------------------------------------------------------------
(* The codec: a run-length frame with a pledged size and a checksum.  The  *)
(* level bounds the run a token may carry, so levels give different frames *)
(* that decode to the same bytes.                                          *)

RunCap(level) == IF level = 0 THEN ZstdDefaultLevel ELSE level

RECURSIVE RunLen(_, _)
RunLen(s, cap) ==
    IF Len(s) <= 1 \/ cap <= 1 THEN Len(IF s = <<>> THEN <<>> ELSE <<s[1]>>)
    ELSE IF s[2] = s[1] THEN 1 + RunLen(Tail(s), cap - 1) ELSE 1

RECURSIVE Tokens(_, _)
Tokens(s, cap) ==
    IF s = <<>> THEN <<>>
    ELSE LET n == RunLen(s, cap)
         IN <<<<s[1], n>>>> \o Tokens(SubSeq(s, n + 1, Len(s)), cap)

\* a decoder that takes every token for a single byte
Expand_single(toks) == [i \in 1..Len(toks) |-> toks[i][1]]

RECURSIVE Expand(_)
Expand(toks) ==
    IF toks = <<>> THEN <<>>
    ELSE [i \in 1..toks[1][2] |-> toks[1][1]] \o Expand(Tail(toks))

RECURSIVE Checksum(_)
Checksum(s) == IF s = <<>> THEN 0 ELSE (s[1] + 1 + 2 * Checksum(Tail(s))) % 5

EmptyBlob == [size |-> None, toks |-> <<>>, sum |-> None]

\* the frame zstd::stream::Encoder leaves after finish()
Encode(s, level) ==
    [size |-> Some(Len(s)), toks |-> Tokens(s, RunCap(level)), sum |-> Some(Checksum(s))]

\* a file that is no zstd frame, and the bytes read from it
Raw(s) == [size |-> None, toks |-> Tokens(s, 1), sum |-> None]
RawBytes(blob) == Expand(blob.toks)

\* zstd::stream::copy_decode: Some(bytes), or None when the frame is torn
Decode(blob) ==
    LET s == Expand(blob.toks)
    IN IF IsSome(blob.size) /\ IsSome(blob.sum)
          /\ Unwrap(blob.size) = Len(s) /\ Unwrap(blob.sum) = Checksum(s)
       THEN Some(s) ELSE None

-----------------------------------------------------------------------------
(* Objects of the data directory *)

NewFile(h) ==
    [kind |-> "file", blob |-> EmptyBlob, ino |-> None, real_size |-> None,
     hino |-> h, synced |-> FALSE]

NewDir(h) ==
    [kind |-> "dir", blob |-> EmptyBlob, ino |-> None, real_size |-> None,
     hino |-> h, synced |-> TRUE]

HostInos == 1..MaxHostIno
HostFree(f) == HostInos \ {f[p].hino : p \in DOMAIN f}

\* the host numbers a new object with the least inode no object has
HostNext(f) == Min((1..(Cardinality(DOMAIN f) + 1)) \ {f[p].hino : p \in DOMAIN f})

\* fs::remove_file: an error, ignored by its callers, unless `p` is a file
remove_file(f, p) == IF p \in DOMAIN f /\ f[p].kind = "file" THEN Del(f, p) ELSE f

DirExists(f, dir) == dir = data_dir \/ (dir \in DOMAIN f /\ f[dir].kind = "dir")

\* xattr::get(path, "user.ino"): Some(ino) only when the object exists and carries it
xattr_get_ino(f, path) == IF path \in DOMAIN f THEN f[path].ino ELSE None

-----------------------------------------------------------------------------
(* OpenedFiles (src/src/file.rs).  A table is [h, dd, mp]: handlers and    *)
(* the two index maps.  Every operator returns the table and its result.   *)

MkInode(ino) == [mount_point_inode |-> ino, data_dir_inode |-> ino]

FileHandler(file, flags, refs) ==
    [file |-> file, flags |-> flags, needs_sync |-> FALSE, refs |-> refs]

\* a number that is handed out whether or not it is a key of the table
new_fh_number_first(h) == Some(0)

\* the first number from 0 that is no key of the table: with n handles open
\* it is at most n (None, when all of u64 is in use, takes 2^64 open handles)
new_fh_number(h) ==
    LET unused == (0..Cardinality(DOMAIN h)) \ DOMAIN h
    IN IF unused = {} THEN None ELSE Some(Min(unused))

IndexAdd(m, ino, fh) == Put(m, ino, (IF ino \in DOMAIN m THEN m[ino] ELSE {}) \cup {fh})

insert(t, inode, flags, file, path) ==
    LET n == new_fh_number(t.h)
    IN IF n = None THEN [t |-> t, ret |-> None]
       ELSE [t |-> [h |-> Put(t.h, Unwrap(n),
                              FileHandler(file, flags, Some([inode |-> inode, path |-> path]))),
                    dd |-> IndexAdd(t.dd, inode.data_dir_inode, Unwrap(n)),
                    mp |-> IndexAdd(t.mp, inode.mount_point_inode, Unwrap(n))],
             ret |-> n]

\* `pick` is the handle mapping.iter().next() yields: any member of the set
duplicate(t, ino, flags, pick) ==
    IF ino \notin DOMAIN t.dd THEN [t |-> t, ret |-> None]
    ELSE LET handler == t.h[pick]
             n == new_fh_number(t.h)
         IN IF n = None THEN [t |-> t, ret |-> None]
            ELSE [t |-> [t EXCEPT !.h = Put(t.h, Unwrap(n),
                                            FileHandler(handler.file, flags, handler.refs))],
                  ret |-> n]

\* one of the two index maps after close(fh) of a handler bound to `ino`
CloseIndex(m, ino, fh) ==
    IF ino \notin DOMAIN m THEN m
    ELSE IF fh \in m[ino] /\ m[ino] \ {fh} # {} THEN Put(m, ino, m[ino] \ {fh})
         ELSE Del(m, ino)

close(t, fh) ==
    IF fh \notin DOMAIN t.h THEN [t |-> t, ret |-> None]
    ELSE LET handler == t.h[fh]
         IN [t |-> IF IsSome(handler.refs)
                   THEN [h |-> Del(t.h, fh),
                         dd |-> CloseIndex(t.dd, Unwrap(handler.refs).inode.data_dir_inode, fh),
                         mp |-> CloseIndex(t.mp, Unwrap(handler.refs).inode.mount_point_inode, fh)]
                   ELSE [t EXCEPT !.h = Del(t.h, fh)],
             ret |-> Some(handler)]

unlink(t, ino) ==
    IF ino \notin DOMAIN t.dd THEN [t |-> t, ret |-> None]
    ELSE LET fhs == t.dd[ino]
             gone == {Unwrap(t.h[fh].refs).inode.mount_point_inode : fh \in fhs}
         IN [t |-> [h |-> [fh \in DOMAIN t.h |->
                              IF fh \in fhs THEN [t.h[fh] EXCEPT !.refs = None] ELSE t.h[fh]],
                    dd |-> Del(t.dd, ino),
                    mp |-> [m \in DOMAIN t.mp \ gone |-> t.mp[m]]],
             ret |-> Some(fhs)]

get_fhs_from_mount_point_inode(t, ino) == IF ino \in DOMAIN t.mp THEN Some(t.mp[ino]) ELSE None

Table == [h |-> handlers, dd |-> data_dir_inode_mapping, mp |-> mount_point_inode_mapping]

-----------------------------------------------------------------------------
(* ZstdFS::update_inode_idx: hands out inode_idx, steps the counter down   *)
(* (back to the top when it would reach FUSE_ROOT_ID) and stores it in     *)
(* user.ino_idx of the data directory.                                     *)

update_inode_idx(idx) ==
    LET top == IF idx - 1 <= FUSE_ROOT_ID THEN U64_MAX ELSE idx
    IN [res |-> idx, inode_idx |-> top - 1, root_ino_idx |-> Some(top - 1)]

\* mount inodes handed out so far stay within the budget of one run
WithinAlloc(idx) == U64_MAX - idx <= MaxAlloc

-----------------------------------------------------------------------------
(* ZstdFS::store_to_source_file as a sequence of steps.  A commit record   *)
(* carries the part of the state the commit reads and writes (fs, the      *)
(* inode counter and its xattr) and the locals of the function.            *)

CommitStart(f, idx, ridx, src, dir, name, level, h) ==
    [pc |-> "tmp", fs |-> f, inode_idx |-> idx, root_ino_idx |-> ridx,
     src |-> src, dir |-> dir, name |-> name, level |-> level, h |-> h,
     written |-> 0, real_size |-> 0, ino |-> 0]

NoCommit == [pc |-> "idle"]

CommitPath(c) == join(c.dir, c.name)
CommitTmp(c) == join(c.dir, TmpName)
CommitOver(c) == c.pc \in {"done", "failed"}

\* the tokens of an encoder that is finished before the last token is copied
CommitTokens_short(c) ==
    LET toks == Tokens(c.src, RunCap(c.level))
    IN SubSeq(toks, 1, Len(toks) - 1)

\* the tokens the encoder writes for the source of the commit
CommitTokens(c) == Tokens(c.src, RunCap(c.level))

\* an encoder opened on the destination instead of the temporary file
EncodeStep_inplace(c) ==
    LET dst == IF CommitPath(c) \in DOMAIN c.fs THEN c.fs[CommitPath(c)] ELSE NewFile(c.h)
        toks == CommitTokens(c)
    IN IF c.written < Len(toks)
       THEN [c EXCEPT !.written = c.written + 1,
                      !.fs = Put(c.fs, CommitPath(c),
                                 [dst EXCEPT !.blob = [size |-> Some(c.real_size),
                                                       toks |-> SubSeq(toks, 1, c.written + 1),
                                                       sum |-> None]])]
       ELSE [c EXCEPT !.pc = "ino",
                      !.fs = Put(c.fs, CommitPath(c),
                                 [dst EXCEPT !.blob = [size |-> Some(c.real_size),
                                                       toks |-> toks,
                                                       sum |-> Some(Checksum(c.src))]])]

\* io::copy into the encoder, one token per step, then encoder.finish()
EncodeStep(c) ==
    LET tmp == c.fs[CommitTmp(c)]
        toks == CommitTokens(c)
    IN IF c.written < Len(toks)
       THEN [c EXCEPT !.written = c.written + 1,
                      !.fs = Put(c.fs, CommitTmp(c),
                                 [tmp EXCEPT !.blob = [size |-> Some(c.real_size),
                                                       toks |-> SubSeq(toks, 1, c.written + 1),
                                                       sum |-> None]])]
       ELSE [c EXCEPT !.pc = "ino",
                      !.fs = Put(c.fs, CommitTmp(c),
                                 [tmp EXCEPT !.blob = [size |-> Some(c.real_size),
                                                       toks |-> toks,
                                                       sum |-> Some(Checksum(c.src))]])]

\* user.ino of the temporary file when the destination is not asked for its
\* inode: always a fresh one
InoStep_fresh(c) ==
    LET tmp == c.fs[CommitTmp(c)]
        a == update_inode_idx(c.inode_idx)
    IN [c EXCEPT !.pc = "persist", !.ino = a.res,
                 !.inode_idx = a.inode_idx, !.root_ino_idx = a.root_ino_idx,
                 !.fs = Put(c.fs, CommitTmp(c),
                            [tmp EXCEPT !.ino = Some(a.res), !.synced = TRUE])]

\* user.ino of the temporary file: the destination's, or a fresh one
InoStep(c) ==
    LET tmp == c.fs[CommitTmp(c)]
        old == xattr_get_ino(c.fs, CommitPath(c))
    IN IF IsSome(old)
       THEN [c EXCEPT !.pc = "persist", !.ino = Unwrap(old),
                      !.fs = Put(c.fs, CommitTmp(c), [tmp EXCEPT !.ino = old])]
       ELSE LET a == update_inode_idx(c.inode_idx)
            IN [c EXCEPT !.pc = "persist", !.ino = a.res,
                         !.inode_idx = a.inode_idx, !.root_ino_idx = a.root_ino_idx,
                         !.fs = Put(c.fs, CommitTmp(c),
                                    [tmp EXCEPT !.ino = Some(a.res), !.synced = TRUE])]

\* tmp_file.persist(path): the rename that replaces the destination
PersistStep(c) ==
    [c EXCEPT !.pc = "real_size",
              !.fs = Put(Del(c.fs, CommitTmp(c)), CommitPath(c), c.fs[CommitTmp(c)])]

StoreStep(c) ==
    CASE c.pc = "tmp" ->
           IF DirExists(c.fs, c.dir)
           THEN [c EXCEPT !.pc = "sync_src", !.fs = Put(c.fs, CommitTmp(c), NewFile(c.h))]
           ELSE [c EXCEPT !.pc = "failed"]
      [] c.pc = "sync_src" ->
           [c EXCEPT !.pc = "encode", !.real_size = Len(c.src)]
      [] c.pc = "encode" -> EncodeStep(c)
      [] c.pc = "ino" -> InoStep(c)
      [] c.pc = "persist" -> PersistStep(c)
      [] c.pc = "real_size" ->
           [c EXCEPT !.pc = "sync",
                     !.fs = Put(c.fs, CommitPath(c),
                                [c.fs[CommitPath(c)] EXCEPT !.real_size = Some(c.real_size),
                                                            !.synced = FALSE])]
      [] c.pc = "sync" ->
           [c EXCEPT !.pc = "done",
                     !.fs = Put(c.fs, CommitPath(c),
                                [c.fs[CommitPath(c)] EXCEPT !.synced = TRUE])]
      [] OTHER -> c

\* a host call of the current step returns an error: the function returns
\* through `?` and the NamedTempFile, when it still exists, is deleted on drop.
\* At "ino" the failing call is set_xattr on the temporary file, which in the
\* fresh-inode branch comes after update_inode_idx.
StoreFail(c) ==
    LET bumped == IF c.pc = "ino" /\ ~IsSome(xattr_get_ino(c.fs, CommitPath(c)))
                  THEN update_inode_idx(c.inode_idx)
                  ELSE [res |-> 0, inode_idx |-> c.inode_idx, root_ino_idx |-> c.root_ino_idx]
    IN [c EXCEPT !.pc = "failed",
                 !.inode_idx = bumped.inode_idx, !.root_ino_idx = bumped.root_ino_idx,
                 !.fs = IF c.pc \in {"sync_src", "encode", "ino", "persist"}
                        THEN Del(c.fs, CommitTmp(c)) ELSE c.fs]

FailPoints == {"tmp", "sync_src", "encode", "ino", "persist", "real_size", "sync"}

\* the whole function: every step in order, failing at step `fail` ("none": no failure)
RECURSIVE StoreRun(_, _)
StoreRun(c, fail) ==
    IF CommitOver(c) THEN c
    ELSE IF c.pc = fail THEN StoreFail(c)
    ELSE StoreRun(StoreStep(c), fail)

store_to_source_file(f, idx, ridx, src, dir, name, level, h, fail) ==
    StoreRun(CommitStart(f, idx, ridx, src, dir, name, level, h), fail)

-----------------------------------------------------------------------------
(* The inode cache as the dispatcher uses it (get_inode_path,               *)
(* set_inode_path, del_inode_path with one u64).  Both components of the   *)
(* key are that u64, so the two records InodeCache keeps for an entry are  *)
(* the same and the cache is a map from inode to path; its entries expire  *)
(* (LruCache::with_expiry_duration).                                       *)

get_inode_path(c, ino) == IF ino \in DOMAIN c THEN Some(c[ino]) ELSE None
set_inode_path(c, ino, dir, name) == Put(c, ino, join(dir, name))
del_inode_path(c, ino) == Del(c, ino)

-----------------------------------------------------------------------------
(* Working files *)

\* tempfile::tempfile(): a working file no handle holds yet
NewWf(w) == Min((0..Cardinality(DOMAIN w)) \ DOMAIN w)

\* a working file lives as long as a handle holds a descriptor of it
Live(w, h) == [id \in {h[f].file : f \in DOMAIN h} \cap DOMAIN w |-> w[id]]

Zeros(n) == [i \in 1..n |-> 0]

\* FileExt::write_at: bytes past the end of file leave a hole of zeros
write_at(c, off, d) ==
    IF d = <<>> THEN c
    ELSE LET base == IF Len(c) < off THEN c \o Zeros(off - Len(c)) ELSE c
             n == IF Len(base) > off + Len(d) THEN Len(base) ELSE off + Len(d)
         IN [i \in 1..n |-> IF i > off /\ i <= off + Len(d) THEN d[i - off] ELSE base[i]]

\* FileExt::read_at into a buffer of `size` bytes, truncated to what was read
read_at(c, off, size) ==
    IF off >= Len(c) THEN <<>>
    ELSE SubSeq(c, off + 1, IF off + size > Len(c) THEN Len(c) ELSE off + size)

\* File::set_len
set_len(c, size) == IF size <= Len(c) THEN SubSeq(c, 1, size) ELSE c \o Zeros(size - Len(c))

-----------------------------------------------------------------------------
(* ZstdFS helpers *)

\* the paths get_path may return; {} is ENOENT.  The cache answers first; on a
\* miss (get_path_miss) the handles indexed under the mount inode are
\* searched in set order.
get_path_miss(ino) ==
    IF IsSome(get_fhs_from_mount_point_inode(Table, ino))
    THEN {Unwrap(handlers[fh].refs).path :
            fh \in {g \in mount_point_inode_mapping[ino] :
                      g \in DOMAIN handlers /\ IsSome(handlers[g].refs)}}
    ELSE {}

get_path(ino) ==
    IF ino = FUSE_ROOT_ID THEN {data_dir}
    ELSE IF IsSome(get_inode_path(inode_cache, ino))
         THEN {Unwrap(get_inode_path(inode_cache, ino))}
    ELSE get_path_miss(ino)

\* FileAttrWrapper::update_realsize
update_realsize(obj) == IF IsSome(obj.real_size) THEN Unwrap(obj.real_size) ELSE 0

\* fs::read_dir(path)
read_dir(f, path) == {p \in DOMAIN f : Len(p) = Len(path) + 1 /\ parent(p) = path}

InoInputs == (U64_MAX - MaxAlloc)..U64_MAX

-----------------------------------------------------------------------------
(* ZstdFS::sync_to_fs(fh, close, force_sync).  `hnew` is the host inode    *)
(* the temporary file of the commit gets, `fail` the step of the commit at *)
(* which a host call fails.                                                *)

SyncResult(t, f, idx, ridx, res, commit) ==
    [t |-> t, fs |-> f, inode_idx |-> idx, root_ino_idx |-> ridx, res |-> res,
     commit |-> commit]

\* sync_to_fs committing to the path the inode cache binds to the inode of
\* the handle, where the code commits to the path recorded on the handle
sync_to_fs_by_cache(fh, closing, force_sync, hnew, fail) ==
    IF fh \notin DOMAIN handlers
    THEN SyncResult(Table, fs, inode_idx, root_ino_idx,
                    IF closing THEN "EBADF" ELSE "ENOENT", "none")
    ELSE LET handler == handlers[fh]
             t1 == IF closing THEN close(Table, fh).t ELSE Table
         IN IF (handler.needs_sync \/ force_sync) /\ IsSome(handler.refs)
            THEN LET mp == Unwrap(handler.refs).inode.mount_point_inode
                     source_path == IF IsSome(get_inode_path(inode_cache, mp))
                                    THEN Unwrap(get_inode_path(inode_cache, mp))
                                    ELSE Unwrap(handler.refs).path
                     c == store_to_source_file(fs, inode_idx, root_ino_idx,
                                               wfiles[handler.file], parent(source_path),
                                               file_name(source_path), compression_level,
                                               hnew, fail)
                 IN IF c.pc = "failed"
                    THEN SyncResult(t1, c.fs, c.inode_idx, c.root_ino_idx, "EIO", "failed")
                    ELSE SyncResult(
                           IF closing THEN t1
                           ELSE [t1 EXCEPT !.h = [t1.h EXCEPT ![fh].needs_sync = FALSE]],
                           c.fs, c.inode_idx, c.root_ino_idx, "ok",
                           IF source_path \in DOMAIN fs THEN "replaced" ELSE "new")
            ELSE SyncResult(t1, fs, inode_idx, root_ino_idx, "ok", "none")

sync_to_fs(fh, closing, force_sync, hnew, fail) ==
    IF fh \notin DOMAIN handlers
    THEN SyncResult(Table, fs, inode_idx, root_ino_idx,
                    IF closing THEN "EBADF" ELSE "ENOENT", "none")
    ELSE LET handler == handlers[fh]
             t1 == IF closing THEN close(Table, fh).t ELSE Table
         IN IF (handler.needs_sync \/ force_sync) /\ IsSome(handler.refs)
            THEN LET source_path == Unwrap(handler.refs).path
                     c == store_to_source_file(fs, inode_idx, root_ino_idx,
                                               wfiles[handler.file], parent(source_path),
                                               file_name(source_path), compression_level,
                                               hnew, fail)
                 IN IF c.pc = "failed"
                    THEN SyncResult(t1, c.fs, c.inode_idx, c.root_ino_idx, "EIO", "failed")
                    ELSE SyncResult(
                           IF closing THEN t1
                           ELSE [t1 EXCEPT !.h = [t1.h EXCEPT ![fh].needs_sync = FALSE]],
                           c.fs, c.inode_idx, c.root_ino_idx, "ok",
                           IF source_path \in DOMAIN fs THEN "replaced" ELSE "new")
            ELSE SyncResult(t1, fs, inode_idx, root_ino_idx, "ok", "none")

release_wrapper(ino, fh, hnew, fail) == sync_to_fs(fh, TRUE, FALSE, hnew, fail)

\* fsync without force_sync
fsync_wrapper_unforced(ino, fh, hnew, fail) == sync_to_fs(fh, FALSE, FALSE, hnew, fail)
fsync_wrapper(ino, fh, hnew, fail) == sync_to_fs(fh, FALSE, TRUE, hnew, fail)

\* flush with force_sync
flush_wrapper_forced(ino, fh, hnew, fail) == sync_to_fs(fh, FALSE, TRUE, hnew, fail)
flush_wrapper(ino, fh, hnew, fail) == sync_to_fs(fh, FALSE, FALSE, hnew, fail)

\* the state sync_to_fs leaves: a handle that was closed gives up its
\* descriptor of the working file
Synced(r) ==
    /\ fs' = r.fs
    /\ inode_idx' = r.inode_idx
    /\ root_ino_idx' = r.root_ino_idx
    /\ handlers' = r.t.h
    /\ data_dir_inode_mapping' = r.t.dd
    /\ mount_point_inode_mapping' = r.t.mp
    /\ wfiles' = Live(wfiles, r.t.h)
    /\ UNCHANGED <<compression_level, inode_cache>>

-----------------------------------------------------------------------------
(* The requests of the dispatcher.  `parent_ino` is a directory inode,     *)
(* `name` a name of the mount (without .zst).  A request that only replies *)
(* (a query, or an error found before anything was changed) leaves every   *)
(* variable as it is; its reply is the value of the *_reply operator.      *)

sys == <<fs, inode_idx, root_ino_idx, compression_level, inode_cache, handlers,
         data_dir_inode_mapping, mount_point_inode_mapping, wfiles>>

NoChange == UNCHANGED sys

\* ZstdFS::update_inode on the object at `path`
update_inode(f, idx, ridx, path) ==
    IF IsSome(f[path].ino)
    THEN [ino |-> Unwrap(f[path].ino), fs |-> f, inode_idx |-> idx, root_ino_idx |-> ridx]
    ELSE LET a == update_inode_idx(idx)
         IN [ino |-> a.res, fs |-> Put(f, path, [f[path] EXCEPT !.ino = Some(a.res)]),
             inode_idx |-> a.inode_idx, root_ino_idx |-> a.root_ino_idx]

\* the entries of `path` that lookup_wrapper matches against `name`
LookupMatches(path, parent_ino, name) ==
    {e \in read_dir(fs, path) :
        /\ ~(parent_ino = FUSE_ROOT_ID /\ cache_path = e)
        /\ file_name(e) = (IF fs[e].kind = "file" THEN Zst(name) ELSE name)}

\* what lookup_wrapper leaves and replies; ino 0 stands for ENOENT.  `dir`
\* is the path of the parent, `entry` the name of the object it resolved.
LookupResult(f, idx, ridx, c, ino, dir, entry) ==
    [fs |-> f, inode_idx |-> idx, root_ino_idx |-> ridx, inode_cache |-> c,
     ino |-> ino, dir |-> dir, entry |-> entry]

LookupEnoent == LookupResult(fs, inode_idx, root_ino_idx, inode_cache, 0, data_dir, "")

\* a lookup that cleans up the uncompressed file also without --convert
LookupFound_cleaning(path, e, name) ==
    LET u == update_inode(fs, inode_idx, root_ino_idx, e)
    IN LookupResult(IF fs[e].kind = "file"
                    THEN remove_file(u.fs, join(path, name)) ELSE u.fs,
                    u.inode_idx, u.root_ino_idx,
                    set_inode_path(inode_cache, u.ino, path, file_name(e)),
                    u.ino, path, file_name(e))

\* the entry `e` of `path` matched: in convert mode the uncompressed file of
\* the same name is cleaned up
LookupFound(path, e, name) ==
    LET u == update_inode(fs, inode_idx, root_ino_idx, e)
    IN LookupResult(IF convert /\ fs[e].kind = "file"
                    THEN remove_file(u.fs, join(path, name)) ELSE u.fs,
                    u.inode_idx, u.root_ino_idx,
                    set_inode_path(inode_cache, u.ino, path, file_name(e)),
                    u.ino, path, file_name(e))

\* a conversion that leaves the uncompressed file where it was
LookupConvert_keeping(path, name) ==
    LET c == store_to_source_file(fs, inode_idx, root_ino_idx,
                                  RawBytes(fs[join(path, name)].blob), path, Zst(name),
                                  compression_level, HostNext(fs), "none")
    IN LookupResult(c.fs, c.inode_idx, c.root_ino_idx,
                    set_inode_path(inode_cache, c.ino, path, Zst(name)),
                    c.ino, path, Zst(name))

\* convert mode: the uncompressed file `name` of `path` is compressed into
\* name.zst and removed
LookupConvert(path, name) ==
    LET c == store_to_source_file(fs, inode_idx, root_ino_idx,
                                  RawBytes(fs[join(path, name)].blob), path, Zst(name),
                                  compression_level, HostNext(fs), "none")
    IN LookupResult(remove_file(c.fs, join(path, name)), c.inode_idx, c.root_ino_idx,
                    set_inode_path(inode_cache, c.ino, path, Zst(name)),
                    c.ino, path, Zst(name))

lookup_result(parent_ino, name) ==
    IF get_path(parent_ino) = {} THEN {LookupEnoent}
    ELSE UNION {IF LookupMatches(path, parent_ino, name) # {}
                THEN {LookupFound(path, e, name) : e \in LookupMatches(path, parent_ino, name)}
                ELSE IF /\ convert /\ ~ends_with_zst(name)
                        /\ join(path, name) \in DOMAIN fs
                        /\ fs[join(path, name)].kind = "file"
                THEN {LookupConvert(path, name)}
                ELSE {LookupEnoent} :
                   path \in get_path(parent_ino)}

\* the inode of the reply of lookup_wrapper: 0 stands for ENOENT
lookup_reply(parent_ino, name) == {l.ino : l \in lookup_result(parent_ino, name)}

lookup_wrapper(parent_ino, name) ==
    \E l \in lookup_result(parent_ino, name) :
       /\ fs' = l.fs
       /\ inode_idx' = l.inode_idx
       /\ root_ino_idx' = l.root_ino_idx
       /\ inode_cache' = l.inode_cache
       /\ UNCHANGED <<compression_level, handlers, data_dir_inode_mapping,
                      mount_point_inode_mapping, wfiles>>

\* the size getattr_wrapper replies: None stands for ENOENT
getattr_reply(ino) ==
    {IF path = data_dir THEN Some(0)
     ELSE IF path \in DOMAIN fs THEN Some(update_realsize(fs[path])) ELSE None :
        path \in get_path(ino)}

getattr_wrapper(ino) == NoChange

\* setattr_wrapper with size = Some(size); fh is None or Some(fh).
\* setattr_files is the working files it leaves.
setattr_files(ino, size, fh) ==
    LET direct == IF IsSome(fh) /\ Unwrap(fh) \in DOMAIN handlers
                  THEN {handlers[Unwrap(fh)].file} ELSE {}
        fhs == get_fhs_from_mount_point_inode(Table, ino)
        shared == IF IsSome(fhs)
                  THEN {handlers[g].file : g \in Unwrap(fhs) \cap DOMAIN handlers} ELSE {}
        cut == direct \cup shared
    IN [id \in DOMAIN wfiles |->
          IF id \in cut THEN set_len(wfiles[id], size) ELSE wfiles[id]]

setattr_wrapper(ino, size, fh) ==
    /\ wfiles' = setattr_files(ino, size, fh)
    /\ UNCHANGED <<fs, inode_idx, root_ino_idx, compression_level, inode_cache, handlers,
                   data_dir_inode_mapping, mount_point_inode_mapping>>

\* open_wrapper when some handle is indexed under the inode: a duplicate
OpenDuplicate(ino, flags) ==
    \E pick \in data_dir_inode_mapping[ino] :
       LET d == duplicate(Table, ino, flags, pick)
       IN /\ handlers' = d.t.h
          /\ data_dir_inode_mapping' = d.t.dd
          /\ mount_point_inode_mapping' = d.t.mp
          /\ UNCHANGED <<fs, inode_idx, root_ino_idx, compression_level, inode_cache, wfiles>>

\* an open that decodes the source and leaves its user.real_size alone
OpenFresh_unsized(ino, flags) ==
    IF \A path \in get_path(ino) : path \notin DOMAIN fs
    THEN NoChange
    ELSE \E file_path \in get_path(ino) \cap DOMAIN fs :
           LET decoded == IF fs[file_path].kind = "file"
                          THEN Decode(fs[file_path].blob) ELSE None
               target_file == NewWf(wfiles)
               i == insert(Table, MkInode(ino), flags, target_file, file_path)
           IN IF ~IsSome(decoded)
              THEN NoChange
              ELSE /\ wfiles' = Put(wfiles, target_file, Unwrap(decoded))
                   /\ handlers' = i.t.h
                   /\ data_dir_inode_mapping' = i.t.dd
                   /\ mount_point_inode_mapping' = i.t.mp
                   /\ UNCHANGED <<fs, inode_idx, root_ino_idx, compression_level, inode_cache>>

\* open_wrapper otherwise: decode the source into a new working file
OpenFresh(ino, flags) ==
    IF \A path \in get_path(ino) : path \notin DOMAIN fs
    THEN NoChange
    ELSE \E file_path \in get_path(ino) \cap DOMAIN fs :
           LET decoded == IF fs[file_path].kind = "file"
                          THEN Decode(fs[file_path].blob) ELSE None
               target_file == NewWf(wfiles)
               i == insert(Table, MkInode(ino), flags, target_file, file_path)
           IN IF ~IsSome(decoded)
              THEN NoChange
              ELSE /\ fs' = Put(fs, file_path,
                                [fs[file_path] EXCEPT !.real_size = Some(Len(Unwrap(decoded))),
                                                      !.synced = TRUE])
                   /\ wfiles' = Put(wfiles, target_file, Unwrap(decoded))
                   /\ handlers' = i.t.h
                   /\ data_dir_inode_mapping' = i.t.dd
                   /\ mount_point_inode_mapping' = i.t.mp
                   /\ UNCHANGED <<inode_idx, root_ino_idx, compression_level, inode_cache>>

open_wrapper(ino, flags) ==
    IF ino \in DOMAIN data_dir_inode_mapping
    THEN OpenDuplicate(ino, flags)
    ELSE OpenFresh(ino, flags)

\* the reply of read_wrapper: None stands for ENOENT
read_reply(fh, offset, size) ==
    IF fh \notin DOMAIN handlers THEN None
    ELSE Some(read_at(wfiles[handlers[fh].file], offset, size))

read_wrapper(ino, fh, offset, size) == NoChange

\* the errno of write_wrapper
write_reply(fh) == IF fh \notin DOMAIN handlers THEN "EBADF" ELSE "ok"

\* a write that leaves needs_sync as it is
write_wrapper_unmarked(ino, fh, offset, data) ==
    IF fh \notin DOMAIN handlers
    THEN NoChange
    ELSE LET file_handler == handlers[fh]
             content == wfiles[file_handler.file]
             at == IF file_handler.flags.append THEN Len(content) ELSE offset
         IN /\ wfiles' = [wfiles EXCEPT ![file_handler.file] = write_at(content, at, data)]
            /\ UNCHANGED <<fs, inode_idx, root_ino_idx, compression_level, inode_cache,
                           handlers, data_dir_inode_mapping, mount_point_inode_mapping>>

\* a write that takes the offset of the request also on an append handle
write_wrapper_at_offset(ino, fh, offset, data) ==
    IF fh \notin DOMAIN handlers
    THEN NoChange
    ELSE LET file_handler == handlers[fh]
             content == wfiles[file_handler.file]
         IN /\ handlers' = [handlers EXCEPT ![fh].needs_sync = TRUE]
            /\ wfiles' = [wfiles EXCEPT ![file_handler.file] = write_at(content, offset, data)]
            /\ UNCHANGED <<fs, inode_idx, root_ino_idx, compression_level, inode_cache,
                           data_dir_inode_mapping, mount_point_inode_mapping>>

write_wrapper(ino, fh, offset, data) ==
    IF fh \notin DOMAIN handlers
    THEN NoChange
    ELSE LET file_handler == handlers[fh]
             content == wfiles[file_handler.file]
             at == IF file_handler.flags.append THEN Len(content) ELSE offset
         IN /\ handlers' = [handlers EXCEPT ![fh].needs_sync = TRUE]
            /\ wfiles' = [wfiles EXCEPT ![file_handler.file] = write_at(content, at, data)]
            /\ UNCHANGED <<fs, inode_idx, root_ino_idx, compression_level, inode_cache,
                           data_dir_inode_mapping, mount_point_inode_mapping>>

\* FUSE sends create only after lookup of the name replied ENOENT
create_wrapper(parent_ino, name, flags, hnew, fail) ==
    \E parent_path \in get_path(parent_ino) :
         /\ join(parent_path, Zst(name)) \notin DOMAIN fs
         /\ LET c == store_to_source_file(fs, inode_idx, root_ino_idx, <<>>, parent_path,
                                          Zst(name), compression_level, hnew, fail)
                opened_file == NewWf(wfiles)
                path == join(parent_path, Zst(name))
                i == insert(Table, MkInode(c.ino), flags, opened_file, path)
            IN /\ fs' = c.fs
               /\ inode_idx' = c.inode_idx
               /\ root_ino_idx' = c.root_ino_idx
               /\ IF c.pc = "failed"
                  THEN UNCHANGED <<inode_cache, handlers, data_dir_inode_mapping,
                                      mount_point_inode_mapping, wfiles>>
                  ELSE /\ inode_cache' = set_inode_path(inode_cache, c.ino, parent_path,
                                                        Zst(name))
                       /\ wfiles' = Put(wfiles, opened_file, <<>>)
                       /\ handlers' = i.t.h
                       /\ data_dir_inode_mapping' = i.t.dd
                       /\ mount_point_inode_mapping' = i.t.mp
               /\ UNCHANGED compression_level

unlink_wrapper(parent_ino, name) ==
    \E parent_path \in get_path(parent_ino) :
       LET path == join(parent_path, Zst(name))
           ino_data == xattr_get_ino(fs, path)
           u == IF IsSome(ino_data) THEN unlink(Table, Unwrap(ino_data)).t ELSE Table
       IN IF path \notin DOMAIN fs
          THEN NoChange
          ELSE /\ inode_cache' = IF IsSome(ino_data)
                                 THEN del_inode_path(inode_cache, Unwrap(ino_data))
                                 ELSE inode_cache
               /\ handlers' = u.h
               /\ data_dir_inode_mapping' = u.dd
               /\ mount_point_inode_mapping' = u.mp
               /\ fs' = Del(fs, path)
               /\ UNCHANGED <<inode_idx, root_ino_idx, compression_level, wfiles>>

\* the orders in which fs::read_dir may yield the entries `S`
Orders(S) ==
    {o \in [1..Cardinality(S) -> S] : \A i, j \in 1..Cardinality(S) : o[i] = o[j] => i = j}

\* a listing that shows uncompressed files also without --convert
ReaddirName_unhidden(ino, e) ==
    IF ino = FUSE_ROOT_ID /\ cache_path = e THEN None
    ELSE IF fs[e].kind = "file"
         THEN IF ~ends_with_zst(file_name(e))
              THEN Some(file_name(e))
              ELSE Some(strip_suffix_zst(file_name(e)))
    ELSE IF fs[e].kind = "dir" THEN Some(file_name(e))
    ELSE None

\* the name readdir_wrapper emits for the entry `e`, None when it skips it
ReaddirName(ino, e) ==
    IF ino = FUSE_ROOT_ID /\ cache_path = e THEN None
    ELSE IF fs[e].kind = "file"
         THEN IF ~ends_with_zst(file_name(e))
              THEN IF ~convert THEN None ELSE Some(file_name(e))
              ELSE Some(strip_suffix_zst(file_name(e)))
    ELSE IF fs[e].kind = "dir" THEN Some(file_name(e))
    ELSE None

\* convert_ft: the fuser file type of a host file type, None for the
\* io::Error of a file type that is neither a directory nor a regular file
convert_ft(kind) == IF kind \in {"dir", "file"} THEN Some(kind) ELSE None

\* the offset handed to reply.add for the entry the enumeration numbers `i`
entry_offset(offset, i) == offset + i + 1

\* the loop of readdir_wrapper over entries.skip(offset).enumerate() of the
\* entries `order`, at the entry numbered `i`; `r` carries the state and the
\* entries added to the reply so far, `cap` is the number of entries the
\* reply buffer takes.  reply.add of an entry beyond that returns true
\* without adding it.  The error of convert_ft ends the call with EIO
\* (an io::Error without an OS code) and the reply is not sent.
RECURSIVE ReaddirPage(_, _, _, _, _, _, _)
ReaddirPage(r, ino, file_path, order, offset, i, cap) ==
    IF offset + i + 1 > Len(order) THEN r
    ELSE LET e == order[offset + i + 1]
             n == ReaddirName(ino, e)
             u == update_inode(r.fs, r.inode_idx, r.root_ino_idx, e)
             r1 == [r EXCEPT !.fs = u.fs, !.inode_idx = u.inode_idx,
                             !.root_ino_idx = u.root_ino_idx,
                             !.inode_cache = set_inode_path(r.inode_cache, u.ino, file_path,
                                                            file_name(e))]
         IN IF ~IsSome(convert_ft(fs[e].kind)) THEN [r EXCEPT !.err = "EIO", !.reply = <<>>]
            ELSE IF ~IsSome(n) THEN ReaddirPage(r, ino, file_path, order, offset, i + 1, cap)
            ELSE IF Len(r.reply) >= cap THEN r1
            ELSE ReaddirPage(
                   [r1 EXCEPT !.reply = Append(r.reply,
                                               [ino |-> u.ino, kind |-> fs[e].kind,
                                                name |-> Unwrap(n),
                                                offset |-> entry_offset(offset, i)])],
                   ino, file_path, order, offset, i + 1, cap)

\* the loop from position `i` of `order` into a reply buffer that takes
\* every entry
ReaddirLoop(r, ino, file_path, order, i) ==
    ReaddirPage(r, ino, file_path, order, 0, i - 1, Len(order))

\* what readdir_wrapper leaves and replies for the directory `file_path`
\* that fs::read_dir yields in the order `order`, from `offset` on, into a
\* reply buffer that takes `cap` entries
readdir_at(ino, file_path, order, offset, cap) ==
    LET r0 == [fs |-> fs, inode_idx |-> inode_idx, root_ino_idx |-> root_ino_idx,
               inode_cache |-> inode_cache, err |-> "ok", dir |-> file_path,
               reply |-> <<>>]
    IN IF file_path # data_dir /\ file_path \notin DOMAIN fs THEN [r0 EXCEPT !.err = "ENOENT"]
       ELSE IF ~DirExists(fs, file_path) THEN [r0 EXCEPT !.err = "ENOTDIR"]
       ELSE ReaddirPage(r0, ino, file_path, order, offset, 0, cap)

\* what readdir_wrapper with offset 0 leaves and replies: err is "ok",
\* "ENOENT" or "ENOTDIR", dir the directory listed, reply the entries added
readdir_result(ino) ==
    LET r0 == [fs |-> fs, inode_idx |-> inode_idx, root_ino_idx |-> root_ino_idx,
               inode_cache |-> inode_cache, err |-> "ok", dir |-> data_dir,
               reply |-> <<>>]
    IN IF get_path(ino) = {} THEN {[r0 EXCEPT !.err = "ENOENT"]}
       ELSE UNION {IF file_path # data_dir /\ file_path \notin DOMAIN fs
                   THEN {[r0 EXCEPT !.err = "ENOENT"]}
                   ELSE IF ~DirExists(fs, file_path)
                   THEN {[r0 EXCEPT !.err = "ENOTDIR"]}
                   ELSE {ReaddirLoop([r0 EXCEPT !.dir = file_path], ino, file_path, order, 1) :
                            order \in Orders(read_dir(fs, file_path))} :
                      file_path \in get_path(ino)}

readdir_wrapper(ino) ==
    \E r \in readdir_result(ino) :
       /\ fs' = r.fs
       /\ inode_idx' = r.inode_idx
       /\ root_ino_idx' = r.root_ino_idx
       /\ inode_cache' = r.inode_cache
       /\ UNCHANGED <<compression_level, handlers, data_dir_inode_mapping,
                      mount_point_inode_mapping, wfiles>>

\* the errno of mkdir_wrapper, "ok" when the directory is made
mkdir_reply(parent_path, name) ==
    IF ~DirExists(fs, parent_path) THEN "ENOENT"
    ELSE IF join(parent_path, name) \in DOMAIN fs THEN "EEXIST"
    ELSE "ok"

mkdir_wrapper(parent_ino, name, hnew) ==
    IF \A parent_path \in get_path(parent_ino) : mkdir_reply(parent_path, name) # "ok"
    THEN NoChange
    ELSE \E parent_path \in get_path(parent_ino) :
            /\ mkdir_reply(parent_path, name) = "ok"
            /\ LET a == update_inode_idx(inode_idx)
                   path == join(parent_path, name)
               IN /\ fs' = Put(fs, path, [NewDir(hnew) EXCEPT !.ino = Some(a.res)])
                  /\ inode_idx' = a.inode_idx
                  /\ root_ino_idx' = a.root_ino_idx
                  /\ inode_cache' = set_inode_path(inode_cache, a.res, parent_path, name)
                  /\ UNCHANGED <<compression_level, handlers, data_dir_inode_mapping,
                                 mount_point_inode_mapping, wfiles>>

\* rmdir that does not look at the cache directory
rmdir_reply_unguarded(path) ==
    IF path \notin DOMAIN fs THEN "ENOENT"
    ELSE IF fs[path].kind # "dir" THEN "ENOTDIR"
    ELSE IF read_dir(fs, path) # {} THEN "ENOTEMPTY"
    ELSE "ok"

\* the errno of rmdir_wrapper on `path`, "ok" when the directory is removed
rmdir_reply(path) ==
    IF cache_path = path THEN "ENOENT"
    ELSE IF path \notin DOMAIN fs THEN "ENOENT"
    ELSE IF fs[path].kind # "dir" THEN "ENOTDIR"
    ELSE IF read_dir(fs, path) # {} THEN "ENOTEMPTY"
    ELSE "ok"

\* what rmdir_wrapper leaves for the directory `name` of `parent_path`: the
\* cache entry and the handles of user.ino go before the directory is looked at
rmdir_result(parent_path, name) ==
    LET path == join(parent_path, name)
        ino_data == xattr_get_ino(fs, path)
    IN [inode_cache |-> IF IsSome(ino_data)
                        THEN del_inode_path(inode_cache, Unwrap(ino_data))
                        ELSE inode_cache,
        t |-> IF IsSome(ino_data) THEN unlink(Table, Unwrap(ino_data)).t ELSE Table,
        fs |-> IF rmdir_reply(path) = "ok" THEN Del(fs, path) ELSE fs,
        err |-> rmdir_reply(path)]

rmdir_wrapper(parent_ino, name) ==
    IF get_path(parent_ino) = {} THEN NoChange
    ELSE \E parent_path \in get_path(parent_ino) :
       LET r == rmdir_result(parent_path, name)
       IN /\ inode_cache' = r.inode_cache
          /\ handlers' = r.t.h
          /\ data_dir_inode_mapping' = r.t.dd
          /\ mount_point_inode_mapping' = r.t.mp
          /\ fs' = r.fs
          /\ UNCHANGED <<inode_idx, root_ino_idx, compression_level, wfiles>>

\* `p` is `from` or lies below it
Below(from, p) == Len(p) >= Len(from) /\ SubSeq(p, 1, Len(from)) = from

\* the errno of fs::rename(from, to) in the data directory `f`
rename_errno(f, from, to) ==
    IF from \notin DOMAIN f \/ ~DirExists(f, parent(to)) THEN "ENOENT"
    ELSE IF from = to THEN "ok"
    ELSE IF f[from].kind = "dir" /\ Below(from, to) THEN "EINVAL"
    ELSE IF to \notin DOMAIN f THEN "ok"
    ELSE IF f[from].kind = "dir" /\ f[to].kind # "dir" THEN "ENOTDIR"
    ELSE IF f[from].kind # "dir" /\ f[to].kind = "dir" THEN "EISDIR"
    ELSE IF f[to].kind = "dir" /\ read_dir(f, to) # {} THEN "ENOTEMPTY"
    ELSE "ok"

\* fs::rename(from, to): the object and all below it move, what was at `to` goes
host_rename(f, from, to) ==
    IF rename_errno(f, from, to) # "ok" \/ from = to THEN f
    ELSE LET moved == {p \in DOMAIN f : Below(from, p)}
             dest(p) == to \o SubSeq(p, Len(from) + 1, Len(p))
             stay == (DOMAIN f \ moved) \ {to}
         IN [q \in stay \cup {dest(p) : p \in moved} |->
                IF q \in stay THEN f[q]
                ELSE f[CHOOSE p \in moved : dest(p) = q]]

\* what rename_wrapper leaves; err is its errno, src the source as the lookup
\* found it.  The paths of the parents are read after the lookup has touched
\* the cache.
rename_result(parent_ino, name, newparent_ino, newname) ==
    UNION {
      IF l.ino = 0
      THEN {[fs |-> l.fs, inode_idx |-> l.inode_idx, root_ino_idx |-> l.root_ino_idx,
             inode_cache |-> l.inode_cache, t |-> Table, err |-> "ENOENT",
             ino |-> 0, from |-> data_dir, to |-> data_dir, src |-> None]}
      ELSE LET regular == l.fs[join(l.dir, l.entry)].kind = "file"
               from_path == join(l.dir, l.entry)
               to_name == IF regular THEN Zst(newname) ELSE newname
               to_parents == IF newparent_ino = l.ino THEN {from_path}
                             ELSE get_path(newparent_ino)
           IN IF to_parents = {}
              THEN {[fs |-> l.fs, inode_idx |-> l.inode_idx, root_ino_idx |-> l.root_ino_idx,
                     inode_cache |-> l.inode_cache, t |-> Table, err |-> "ENOENT",
                     ino |-> l.ino, from |-> from_path, to |-> data_dir,
                     src |-> Some(l.fs[from_path])]}
              ELSE {LET to_path == join(to_parent_path, to_name)
                        orig_ino == IF to_path \in DOMAIN l.fs
                                    THEN Some(l.fs[to_path].hino) ELSE None
                        c1 == IF IsSome(orig_ino)
                              THEN del_inode_path(l.inode_cache, Unwrap(orig_ino))
                              ELSE l.inode_cache
                        t1 == IF IsSome(orig_ino)
                              THEN unlink(Table, Unwrap(orig_ino)).t ELSE Table
                        err == rename_errno(l.fs, from_path, to_path)
                    IN [fs |-> host_rename(l.fs, from_path, to_path),
                        inode_idx |-> l.inode_idx, root_ino_idx |-> l.root_ino_idx,
                        inode_cache |-> IF err = "ok"
                                        THEN set_inode_path(c1, l.ino, to_parent_path, to_name)
                                        ELSE c1,
                        t |-> t1, err |-> err, ino |-> l.ino,
                        from |-> from_path, to |-> to_path,
                        src |-> Some(l.fs[from_path])] :
                      to_parent_path \in to_parents} :
      l \in lookup_result(parent_ino, name)}

rename_wrapper(parent_ino, name, newparent_ino, newname) ==
    \E r \in rename_result(parent_ino, name, newparent_ino, newname) :
       /\ fs' = r.fs
       /\ inode_idx' = r.inode_idx
       /\ root_ino_idx' = r.root_ino_idx
       /\ inode_cache' = r.inode_cache
       /\ handlers' = r.t.h
       /\ data_dir_inode_mapping' = r.t.dd
       /\ mount_point_inode_mapping' = r.t.mp
       /\ UNCHANGED <<compression_level, wfiles>>

\* the entry of `ino` leaves the inode cache
Evict(ino) ==
    /\ ino \in DOMAIN inode_cache
    /\ inode_cache' = del_inode_path(inode_cache, ino)
    /\ UNCHANGED <<fs, inode_idx, root_ino_idx, compression_level, handlers,
                   data_dir_inode_mapping, mount_point_inode_mapping, wfiles>>

-----------------------------------------------------------------------------
(* The mount after init on an empty data directory, without --convert *)

Mounted(level) ==
    /\ fs = (cache_path :> NewDir(1))
    /\ convert = FALSE
    /\ inode_idx = U64_MAX
    /\ root_ino_idx = None
    /\ compression_level = level
    /\ inode_cache = Empty
    /\ handlers = Empty
    /\ data_dir_inode_mapping = Empty
    /\ mount_point_inode_mapping = Empty
    /\ wfiles = Empty

\* What a step did to the objects of the data directory: "new" when an object
\* appeared, "replaced" when an object got another host inode, else "none"
CommitSeen ==
    IF \E p \in DOMAIN fs' : p \notin DOMAIN fs THEN "new"
    ELSE IF \E p \in DOMAIN fs' : fs'[p].hino # fs[p].hino THEN "replaced"
    ELSE "none"

\* `last` names the request that changed the state of the mount last, the
\* handle it was sent on (-1: none) and what it did to the data directory
Served(op, fh, commit) == [op |-> op, fh |-> fh, commit |-> commit]

Serve(op, fh) == last' = IF sys' = sys THEN last ELSE Served(op, fh, CommitSeen)

\* open and create reply the handle they inserted
ServeOpened(op) ==
    last' = IF DOMAIN handlers' = DOMAIN handlers THEN last
            ELSE Served(op, Min(DOMAIN handlers' \ DOMAIN handlers), CommitSeen)

\* fewer than `n` handles are open
HasRoom(n) == Cardinality(DOMAIN handlers) < n

\* the working file of `fh` stays within `len` bytes after the write
Fits(fh, offset, data, len) ==
    (IF handlers[fh].flags.append THEN Len(wfiles[handlers[fh].file]) ELSE offset)
        + Len(data) <= len

\* the inode sent with a request on an open handle: read and write only touch
\* the cache with it, release, flush and fsync ignore it
AnyIno == U64_MAX

OpenFhs == DOMAIN handlers

-----------------------------------------------------------------------------
(* The mount under any sequence of requests.  FUSE sends requests on the   *)
(* inodes it was told and on handles that are open; the host does not      *)
(* fail.                                                                   *)

NoFault == "none"
PlainFlags == {[append |-> FALSE]}

Init ==
    /\ Mounted(0)
    /\ last = Served("init", -1, "none")
    /\ plain = Empty
    /\ cm = NoCommit
    /\ rt = 0

\* a request leaves the monitors of the other specifications alone; the run
\* ends before it has handed out more mount inodes than its budget
Idle == WithinAlloc(inode_idx') /\ UNCHANGED <<plain, cm, rt, convert>>

lookup ==
    /\ \E name \in FileNames :
          lookup_wrapper(FUSE_ROOT_ID, name) /\ Serve("lookup", -1)
    /\ Idle

getattr ==
    /\ \E ino \in InoInputs : getattr_wrapper(ino) /\ Serve("getattr", -1)
    /\ Idle

setattr ==
    /\ \E ino \in InoInputs, size \in 0..MaxLen, fh \in {None} \cup {Some(f) : f \in OpenFhs} :
          /\ setattr_wrapper(ino, size, fh)
          /\ Serve("setattr", IF IsSome(fh) THEN Unwrap(fh) ELSE -1)
    /\ Idle

open ==
    /\ HasRoom(MaxOpen)
    /\ \E ino \in InoInputs, flags \in PlainFlags :
          open_wrapper(ino, flags) /\ ServeOpened("open")
    /\ Idle

read ==
    /\ \E fh \in OpenFhs, offset \in 0..MaxLen, size \in 1..MaxLen :
          read_wrapper(AnyIno, fh, offset, size) /\ Serve("read", fh)
    /\ Idle

write ==
    /\ \E fh \in OpenFhs, offset \in 0..MaxLen, data \in Contents :
          /\ Fits(fh, offset, data, MaxLen)
          /\ write_wrapper(AnyIno, fh, offset, data)
          /\ Serve("write", fh)
    /\ Idle

create ==
    /\ HasRoom(MaxOpen)
    /\ \E name \in FileNames, flags \in PlainFlags, hnew \in HostFree(fs) :
          create_wrapper(FUSE_ROOT_ID, name, flags, hnew, NoFault) /\ ServeOpened("create")
    /\ Idle

release ==
    /\ \E fh \in OpenFhs, hnew \in HostFree(fs) :
          \E r \in {release_wrapper(AnyIno, fh, hnew, NoFault)} : Synced(r) /\ Serve("release", fh)
    /\ Idle

flush ==
    /\ \E fh \in OpenFhs, hnew \in HostFree(fs) :
          \E r \in {flush_wrapper(AnyIno, fh, hnew, NoFault)} : Synced(r) /\ Serve("flush", fh)
    /\ Idle

fsync ==
    /\ \E fh \in OpenFhs, hnew \in HostFree(fs) :
          \E r \in {fsync_wrapper(AnyIno, fh, hnew, NoFault)} : Synced(r) /\ Serve("fsync", fh)
    /\ Idle

unlink_request ==
    /\ \E name \in FileNames :
          unlink_wrapper(FUSE_ROOT_ID, name) /\ Serve("unlink", -1)
    /\ Idle

\* an entry of the inode cache expires
expire ==
    /\ \E ino \in InoInputs : Evict(ino)
    /\ UNCHANGED last
    /\ Idle

Next ==
    \/ lookup \/ getattr \/ setattr \/ open \/ read \/ write \/ create
    \/ release \/ flush \/ fsync \/ unlink_request \/ expire

Spec == Init /\ [][Next]_vars

-----------------------------------------------------------------------------
(* Properties of the mount under any sequence of requests (Spec) *)

\* the objects of the data directory that are compressed files
Objects(f) == {p \in DOMAIN f : f[p].kind = "file"}

\* the handles that still refer to their file
Referring == {fh \in DOMAIN handlers : IsSome(handlers[fh].refs)}

PathOf(fh) == Unwrap(handlers[fh].refs).path

\* the bytes a read of the whole file through `fh` returns
Whole(w, h, fh) == read_at(w[h[fh].file], 0, MaxLen)

\* the steps of the requests that act on an open file
WriteStep ==
    \E fh \in OpenFhs :
       /\ Serve("write", fh)
       /\ \E offset \in 0..MaxLen, data \in Contents : write_wrapper(AnyIno, fh, offset, data)
FlushStep(fh) ==
    Serve("flush", fh) /\ \E hnew \in HostFree(fs) : Synced(flush_wrapper(AnyIno, fh, hnew, NoFault))
FsyncStep(fh) ==
    Serve("fsync", fh) /\ \E hnew \in HostFree(fs) : Synced(fsync_wrapper(AnyIno, fh, hnew, NoFault))
ReleaseStep(fh) ==
    Serve("release", fh) /\ \E hnew \in HostFree(fs) : Synced(release_wrapper(AnyIno, fh, hnew, NoFault))

\* every object of the data directory is still there and still carries the
\* mount inode it carried, which is the inode lookup replies for its name
InoKept ==
    /\ \A p \in Objects(fs) : p \in Objects(fs') /\ fs'[p].ino = fs[p].ino
    /\ \A name \in FileNames :
          join(data_dir, Zst(name)) \in Objects(fs)
             => lookup_reply(FUSE_ROOT_ID, name)' = lookup_reply(FUSE_ROOT_ID, name)

\* C2: no write, flush, fsync or release changes the mount inode stored on an
\* object of the data directory or the inode lookup reports for it: a commit
\* to an existing object keeps its user.ino while the host inode of the
\* object changes.
C2_MountInodeStable ==
    [][InoKept \/ ~(WriteStep \/ \E fh \in OpenFhs :
                                    FlushStep(fh) \/ FsyncStep(fh) \/ ReleaseStep(fh))]_vars

\* a commit through an open handle replaced the object and the object still
\* carries the mount inode the handle was opened on
C2_Witness ==
    /\ last.op \in {"flush", "fsync", "release"}
    /\ last.commit = "replaced"
    /\ \E p \in Objects(fs) : fs[p].ino = Some(U64_MAX)

-----------------------------------------------------------------------------
\* C8: fsync on an open handle that still refers to its file always commits:
\* the object at the path of the handle is replaced by one of another host
\* inode, whether or not the handle was dirty, and the handle stays open and
\* is not dirty.
C8_FsyncAlwaysCommits ==
    \A fh \in Referring, hnew \in HostFree(fs) :
       LET r == fsync_wrapper(AnyIno, fh, hnew, NoFault)
       IN /\ r.res = "ok"
          /\ PathOf(fh) \in Objects(r.fs)
          /\ PathOf(fh) \in Objects(fs) => r.fs[PathOf(fh)].hino # fs[PathOf(fh)].hino
          /\ fh \in DOMAIN r.t.h
          /\ ~r.t.h[fh].needs_sync

\* fsync replaced the object of a handle that is still open and not dirty
C8_Witness ==
    /\ last.op = "fsync"
    /\ last.commit = "replaced"
    /\ last.fh \in Referring
    /\ ~handlers[last.fh].needs_sync
    /\ PathOf(last.fh) \in Objects(fs)

-----------------------------------------------------------------------------
\* every object is still there with the host inode and the frame it had
ObjectsKept ==
    \A p \in Objects(fs) :
       p \in Objects(fs') /\ fs'[p].hino = fs[p].hino /\ fs'[p].blob = fs[p].blob

\* every object of the next state was there with the same host inode and frame
ObjectsOld ==
    \A p \in Objects(fs') :
       p \in Objects(fs) /\ fs'[p].hino = fs[p].hino /\ fs'[p].blob = fs[p].blob

\* a step of a request that does not commit: open, read, write, and flush or
\* release of a handle that is not dirty
QuietStep ==
    \/ \E ino \in InoInputs, flags \in PlainFlags : open_wrapper(ino, flags)
    \/ \E fh \in OpenFhs, offset \in 0..MaxLen, size \in 1..MaxLen :
          read_wrapper(AnyIno, fh, offset, size)
    \/ WriteStep
    \/ \E fh \in OpenFhs : ~handlers[fh].needs_sync /\ (FlushStep(fh) \/ ReleaseStep(fh))

\* a step of a request that commits: flush or release of a dirty handle,
\* fsync, create
CommitStep ==
    \/ \E fh \in OpenFhs : handlers[fh].needs_sync /\ (FlushStep(fh) \/ ReleaseStep(fh))
    \/ \E fh \in OpenFhs : FsyncStep(fh)
    \/ \E name \in FileNames, flags \in PlainFlags, hnew \in HostFree(fs) :
          create_wrapper(FUSE_ROOT_ID, name, flags, hnew, NoFault)

\* C9: open, read, write, and flush or release of a handle that is not dirty
\* leave every compressed object with its host inode and its encoded
\* content; a step after which an object is new or has another host inode or
\* content is a commit: flush or release of a dirty handle, fsync or create.
C9_OnlyCommitsReplace ==
    [][/\ ObjectsKept \/ ~QuietStep
       /\ ObjectsOld \/ CommitStep]_vars

\* a handle that was not dirty was released while its object exists: the
\* release closed the handle and left the object alone
C9_Witness ==
    /\ last.op = "release"
    /\ last.commit = "none"
    /\ Objects(fs) # {}
    /\ \A fh \in DOMAIN handlers : ~handlers[fh].needs_sync

-----------------------------------------------------------------------------
\* after the request the handle is not dirty and the object at its path
\* decodes to its working file
Clean(r, fh) ==
    /\ fh \in DOMAIN r.t.h
    /\ ~r.t.h[fh].needs_sync
    /\ PathOf(fh) \in Objects(r.fs)
    /\ Decode(r.fs[PathOf(fh)].blob) = Some(wfiles[r.t.h[fh].file])

\* C10: right after a successful commit through a handle (flush of a dirty
\* handle, or fsync) the handle is not dirty and the compressed object at its
\* path decodes byte for byte to its working file.
C10_CommitReflectsWorkingFile ==
    \A fh \in Referring, hnew \in HostFree(fs) :
       LET synced == fsync_wrapper(AnyIno, fh, hnew, NoFault)
           flushed == flush_wrapper(AnyIno, fh, hnew, NoFault)
       IN /\ synced.res = "ok" => Clean(synced, fh)
          /\ handlers[fh].needs_sync /\ flushed.res = "ok" => Clean(flushed, fh)

\* flush committed a working file that is not empty
C10_Witness ==
    /\ last.op = "flush"
    /\ last.commit = "replaced"
    /\ last.fh \in Referring
    /\ ~handlers[last.fh].needs_sync
    /\ wfiles[handlers[last.fh].file] # <<>>
    /\ Decode(fs[PathOf(last.fh)].blob) = Some(wfiles[handlers[last.fh].file])

-----------------------------------------------------------------------------
\* C4: flush, fsync and release never bring an object into the data
\* directory: after a file is unlinked, no request on a handle that was
\* open on it recreates <name>.zst.
C4_NoResurrection ==
    [][(\A p \in Objects(fs') : p \in Objects(fs))
          \/ ~(\E fh \in OpenFhs : FlushStep(fh) \/ FsyncStep(fh) \/ ReleaseStep(fh))]_vars

\* the handles open on the same mount inode
SameFile(f, g) ==
    /\ f \in Referring /\ g \in Referring
    /\ Unwrap(handlers[f].refs).inode = Unwrap(handlers[g].refs).inode

\* C5: the handles open at the same time on one mount inode read the same
\* bytes: a write through one of them is returned by a read through every
\* other one.
C5_OpenersCoherent ==
    \A f, g \in DOMAIN handlers :
       SameFile(f, g) => Whole(wfiles, handlers, f) = Whole(wfiles, handlers, g)

\* C7: a handle opened on a file reads the content committed last, also
\* while another handle holds writes that are not committed.
C7_OpenReadsCommitted ==
    [][\A fh \in DOMAIN handlers' \ DOMAIN handlers :
          \/ /\ IsSome(handlers'[fh].refs)
             /\ Unwrap(handlers'[fh].refs).path \in Objects(fs)
             /\ Some(Whole(wfiles', handlers', fh))
                    = Decode(fs[Unwrap(handlers'[fh].refs).path].blob)
          \/ ~(\E ino \in InoInputs, flags \in PlainFlags : open_wrapper(ino, flags))]_vars

-----------------------------------------------------------------------------
\* the handles open on the object at `p`
OpenOn(p) == {fh \in Referring : PathOf(fh) = p}

\* C12: at every operation boundary, for every regular file of the mount,
\* the size getattr reports is the user.real_size of its object and is the
\* number of bytes a read of the whole file returns: through each handle open
\* on it when there is one, else by decoding the object.
C12_SizeIsLength ==
    \A p \in Objects(fs) :
       LET size == update_realsize(fs[p])
       IN /\ fs[p].real_size = Some(size)
          /\ IF OpenOn(p) = {}
             THEN /\ IsSome(Decode(fs[p].blob))
                  /\ Len(Unwrap(Decode(fs[p].blob))) = size
             ELSE \A fh \in OpenOn(p) : Len(wfiles[handlers[fh].file]) = size

-----------------------------------------------------------------------------
(* One file written and read back (tests/cmdline.rs, tee): create, write  *)
(* at offset 0, release, then lookup, open and read, at every compression  *)
(* level.  `rt` holds the position in this sequence ("failed" when open    *)
(* replied an error), the bytes written, the handle and the inode in use   *)
(* and the bytes read.                                                     *)

RtMaxLen == 4        \* longest byte string written and read back

RtName == "a"
RtPath == join(data_dir, Zst(RtName))

RtInit ==
    /\ \E level \in Levels : Mounted(level)
    /\ \E B \in SeqsUpTo(RtMaxLen) :
          rt = [pc |-> "create", B |-> B, fh |-> 0, ino |-> 0, data |-> <<>>]
    /\ last = Served("init", -1, "none")
    /\ plain = Empty
    /\ cm = NoCommit

RtIdle == UNCHANGED <<last, plain, cm, convert>>

RtCreate ==
    /\ rt.pc = "create"
    /\ \E hnew \in HostFree(fs) :
          create_wrapper(FUSE_ROOT_ID, RtName, [append |-> FALSE], hnew, NoFault)
    /\ rt' = [rt EXCEPT !.pc = "write", !.fh = Min(DOMAIN handlers' \ DOMAIN handlers)]
    /\ RtIdle

RtWrite ==
    /\ rt.pc = "write"
    /\ write_wrapper(AnyIno, rt.fh, 0, rt.B)
    /\ rt' = [rt EXCEPT !.pc = "release"]
    /\ RtIdle

RtRelease ==
    /\ rt.pc = "release"
    /\ \E hnew \in HostFree(fs) : Synced(release_wrapper(AnyIno, rt.fh, hnew, NoFault))
    /\ rt' = [rt EXCEPT !.pc = "lookup"]
    /\ RtIdle

RtLookup ==
    /\ rt.pc = "lookup"
    /\ \E ino \in lookup_reply(FUSE_ROOT_ID, RtName) :
          rt' = [rt EXCEPT !.pc = "open", !.ino = ino]
    /\ lookup_wrapper(FUSE_ROOT_ID, RtName)
    /\ RtIdle

RtOpen ==
    /\ rt.pc = "open"
    /\ open_wrapper(rt.ino, [append |-> FALSE])
    /\ rt' = IF DOMAIN handlers' = DOMAIN handlers
             THEN [rt EXCEPT !.pc = "failed"]
             ELSE [rt EXCEPT !.pc = "read",
                             !.fh = Min(DOMAIN handlers' \ DOMAIN handlers)]
    /\ RtIdle

RtRead ==
    /\ rt.pc = "read"
    /\ read_wrapper(rt.ino, rt.fh, 0, Len(rt.B))
    /\ rt' = [rt EXCEPT !.pc = "done",
                        !.data = Unwrap(read_reply(rt.fh, 0, Len(rt.B)))]
    /\ RtIdle

RtNext == RtCreate \/ RtWrite \/ RtRelease \/ RtLookup \/ RtOpen \/ RtRead

SpecRoundTrip == RtInit /\ [][RtNext]_vars

\* C1: for every byte string B and every compression level 0..19, after
\* create, write(FH, 0, B), release(FH), the file opens, read(FH', 0, |B|)
\* returns exactly B, and the object <name>.zst decodes to B.
C1_RoundTrip ==
    /\ rt.pc # "failed"
    /\ rt.pc = "done" =>
          /\ rt.data = rt.B
          /\ RtPath \in DOMAIN fs
          /\ Decode(fs[RtPath].blob) = Some(rt.B)

\* a string of the greatest length with a run in it was read back at level 19
C1_Witness ==
    /\ rt.pc = "done"
    /\ compression_level = MaxLevel
    /\ rt.B = <<1, 1, 0, 1>>
    /\ rt.data = rt.B
    /\ fs[RtPath].blob.toks = <<<<1, 2>>, <<0, 1>>, <<1, 1>>>>

-----------------------------------------------------------------------------
(* store_to_source_file one host call at a time, as a process that reads   *)
(* the data directory while a commit runs sees it.  `cm` is the commit     *)
(* record with, in addition, the object the destination held when the      *)
(* commit began (`before`) and the step at which the commit failed.        *)

CmMaxLen == 2        \* longest working file committed
CmLevels == {0, 1}

CmName == Zst("a")
CmPath == join(data_dir, CmName)

\* the data directory after create, write of `prev` and release
CmCommitted(level, prev, h) ==
    store_to_source_file((cache_path :> NewDir(1)), U64_MAX, None, prev, data_dir,
                         CmName, level, h, NoFault)

CmInit ==
    /\ \E level \in CmLevels :
          /\ compression_level = level
          /\ \/ /\ fs = (cache_path :> NewDir(1))
                /\ inode_idx = U64_MAX
                /\ root_ino_idx = None
             \/ \E prev \in SeqsUpTo(CmMaxLen), h \in HostFree((cache_path :> NewDir(1))) :
                   /\ fs = CmCommitted(level, prev, h).fs
                   /\ inode_idx = CmCommitted(level, prev, h).inode_idx
                   /\ root_ino_idx = CmCommitted(level, prev, h).root_ino_idx
    /\ convert = FALSE
    /\ inode_cache = Empty
    /\ handlers = Empty
    /\ data_dir_inode_mapping = Empty
    /\ mount_point_inode_mapping = Empty
    /\ wfiles = Empty
    /\ last = Served("init", -1, "none")
    /\ plain = Empty
    /\ rt = 0
    /\ cm = NoCommit

CmIdle ==
    UNCHANGED <<compression_level, inode_cache, handlers, data_dir_inode_mapping,
                mount_point_inode_mapping, wfiles, last, plain, rt, convert>>

CmApply ==
    /\ fs' = cm'.fs
    /\ inode_idx' = cm'.inode_idx
    /\ root_ino_idx' = cm'.root_ino_idx
    /\ CmIdle

\* a commit of a working file `src` to the destination begins
CmBegin ==
    /\ cm.pc = "idle"
    /\ \E src \in SeqsUpTo(CmMaxLen), h \in HostFree(fs) :
          cm' = CommitStart(fs, inode_idx, root_ino_idx, src, data_dir, CmName,
                            compression_level, h)
                   @@ [before |-> IF CmPath \in DOMAIN fs THEN Some(fs[CmPath]) ELSE None,
                       failed_at |-> "none"]
    /\ WithinAlloc(inode_idx - 1)
    /\ UNCHANGED <<fs, inode_idx, root_ino_idx>>
    /\ CmIdle

\* the next host call of the commit returns
CmStep ==
    /\ cm.pc \notin {"idle", "done", "failed"}
    /\ cm' = StoreStep(cm)
    /\ CmApply

\* the next host call of the commit fails
CmFail ==
    /\ cm.pc \notin {"idle", "done", "failed"}
    /\ cm' = [StoreFail(cm) EXCEPT !.failed_at = cm.pc]
    /\ CmApply

\* store_to_source_file has returned
CmEnd ==
    /\ cm.pc \in {"done", "failed"}
    /\ cm' = NoCommit
    /\ UNCHANGED <<fs, inode_idx, root_ino_idx>>
    /\ CmIdle

CmNext == CmBegin \/ CmStep \/ CmFail \/ CmEnd

SpecCommit == CmInit /\ [][CmNext]_vars

BeforeRename == {"tmp", "sync_src", "encode", "ino", "persist"}

\* C3: at every step of a commit, and after a commit that failed at any
\* step, the destination holds either the whole object it held before or the
\* whole encoding of the working file, never a part of one; until the rename,
\* and after a commit that failed before the rename, it holds what it held
\* before.
C3_CommitAtomic ==
    cm.pc # "idle" =>
       /\ IsSome(cm.before) => CmPath \in DOMAIN fs
       /\ CmPath \in DOMAIN fs =>
             \/ IsSome(cm.before) /\ fs[CmPath].blob = Unwrap(cm.before).blob
                                  /\ fs[CmPath].hino = Unwrap(cm.before).hino
             \/ /\ fs[CmPath].blob = Encode(cm.src, cm.level)
                /\ Decode(fs[CmPath].blob) = Some(cm.src)
       /\ (cm.pc \in BeforeRename \/ cm.failed_at \in BeforeRename) =>
             IF IsSome(cm.before)
             THEN CmPath \in DOMAIN fs /\ fs[CmPath] = Unwrap(cm.before)
             ELSE CmPath \notin DOMAIN fs

\* the encoder has written one of two tokens to the temporary file, which does
\* not decode, while the destination holds the object of before
C3_Witness ==
    /\ cm.pc = "encode"
    /\ cm.written = 1
    /\ Len(CommitTokens(cm)) = 2
    /\ IsSome(cm.before)
    /\ Decode(fs[CommitTmp(cm)].blob) = None
    /\ fs[CmPath] = Unwrap(cm.before)
    /\ Decode(fs[CmPath].blob) # Some(cm.src)

\* C31: when the rename of a commit is about to make the temporary file
\* visible at the destination, user.ino is on the temporary file and the
\* temporary file has been flushed to the disk, whether the inode is the
\* destination's or a fresh one; user.real_size is not on the object until
\* the rename has happened.
C31_DurableBeforeRename ==
    /\ cm.pc = "persist" =>
          /\ fs[CommitTmp(cm)].ino = Some(cm.ino)
          /\ fs[CommitTmp(cm)].synced
    /\ (cm.pc \in BeforeRename /\ CommitTmp(cm) \in DOMAIN fs) =>
          fs[CommitTmp(cm)].real_size = None

-----------------------------------------------------------------------------
(* Parallel opens of one file (tests/glitches.rs, parallel_write): the     *)
(* file is opened several times, then written, fsynced, flushed and closed *)
(* through these handles in any order.  `plain` is the same file on a      *)
(* plain host filesystem: its content after the same writes; pc is "none"  *)
(* while no handle is open, "opening" while the handles are being opened   *)
(* and "running" from the first write, fsync, flush or close on; writers   *)
(* are the handles written through since the first open.                   *)

PlMaxLen == 2        \* longest file written through parallel handles
PlMaxOpen == 3       \* handles opened on the file

PlName == "a"
PlPath == join(data_dir, Zst(PlName))

PlInit ==
    /\ Mounted(0)
    /\ plain = [pc |-> "none", content |-> <<>>, ino |-> 0, writers |-> {}]
    /\ last = Served("init", -1, "none")
    /\ cm = NoCommit
    /\ rt = 0

PlIdle == UNCHANGED <<last, cm, rt, convert>>

\* the phase after a request on an open handle
PlAfter == IF DOMAIN handlers' = {} THEN "none" ELSE "running"

\* the first open of a file that does not exist: open(O_CREAT)
PlCreate ==
    /\ plain.pc = "none"
    /\ PlPath \notin DOMAIN fs
    /\ \E hnew \in HostFree(fs) :
          create_wrapper(FUSE_ROOT_ID, PlName, [append |-> FALSE], hnew, NoFault)
    /\ plain' = [pc |-> "opening", content |-> <<>>, writers |-> {},
                 ino |-> Unwrap(xattr_get_ino(fs', PlPath))]
    /\ PlIdle

\* an open of the file that exists, before any handle is used
PlOpen ==
    /\ plain.pc \in {"none", "opening"}
    /\ HasRoom(PlMaxOpen)
    /\ PlPath \in DOMAIN fs
    /\ open_wrapper(plain.ino, [append |-> FALSE])
    /\ plain' = [plain EXCEPT !.pc = "opening",
                              !.writers = IF plain.pc = "none" THEN {} ELSE @]
    /\ PlIdle

PlWrite ==
    /\ \E fh \in OpenFhs, offset \in 0..PlMaxLen, data \in SeqsUpTo(PlMaxLen) :
          /\ Fits(fh, offset, data, PlMaxLen)
          /\ write_wrapper(plain.ino, fh, offset, data)
          /\ plain' = [plain EXCEPT !.pc = "running",
                                    !.content = write_at(@, offset, data),
                                    !.writers = @ \cup {fh}]
    /\ PlIdle

PlFsync ==
    /\ \E fh \in OpenFhs, hnew \in HostFree(fs) :
          Synced(fsync_wrapper(plain.ino, fh, hnew, NoFault))
    /\ plain' = [plain EXCEPT !.pc = "running"]
    /\ PlIdle

PlFlush ==
    /\ \E fh \in OpenFhs, hnew \in HostFree(fs) :
          Synced(flush_wrapper(plain.ino, fh, hnew, NoFault))
    /\ plain' = [plain EXCEPT !.pc = "running"]
    /\ PlIdle

PlClose ==
    /\ \E fh \in OpenFhs, hnew \in HostFree(fs) :
          Synced(release_wrapper(plain.ino, fh, hnew, NoFault))
    /\ plain' = [plain EXCEPT !.pc = PlAfter]
    /\ PlIdle

PlNext == PlCreate \/ PlOpen \/ PlWrite \/ PlFsync \/ PlFlush \/ PlClose

SpecParallel == PlInit /\ [][PlNext]_vars

\* C6: when the last of several handles opened on one file is closed, after
\* any interleaving of positional writes, fsyncs and closes through them, the
\* content a reader of the file gets (the decoded object) is the content the
\* same writes leave in one plain host file.
C6_RefinesPlainFile ==
    (plain.pc = "none" /\ PlPath \in DOMAIN fs) =>
        Decode(fs[PlPath].blob) = Some(plain.content)

\* three handles were written through and all are closed
C6_Witness ==
    /\ plain.pc = "none"
    /\ Cardinality(plain.writers) = PlMaxOpen
    /\ Len(plain.content) = PlMaxLen
    /\ Decode(fs[PlPath].blob) = Some(plain.content)

-----------------------------------------------------------------------------
(* Truncation of an existing file (tests/cmdline.rs, tee, "truncate"; the  *)
(* scenario without the write that follows): the file is created with      *)
(* content B and released, then opened, cut or extended to `size` bytes by *)
(* setattr, released, and opened and read again.  `rt` holds in addition   *)
(* the size asked for.                                                     *)

TrMaxLen == 2        \* longest file truncated

TrInit ==
    /\ Mounted(0)
    /\ \E B \in SeqsUpTo(TrMaxLen) :
          rt = [pc |-> "create", B |-> B, fh |-> 0, ino |-> 0, data |-> <<>>, size |-> 0]
    /\ last = Served("init", -1, "none")
    /\ plain = Empty
    /\ cm = NoCommit

\* setattr(size) on the open file, sent with or without the handle
TrSetattr ==
    /\ rt.pc = "read"
    /\ \E size \in 0..(TrMaxLen + 1), fh \in {None, Some(rt.fh)} :
          /\ setattr_wrapper(rt.ino, size, fh)
          /\ rt' = [rt EXCEPT !.pc = "close", !.size = size]
    /\ RtIdle

TrClose ==
    /\ rt.pc = "close"
    /\ \E hnew \in HostFree(fs) : Synced(release_wrapper(rt.ino, rt.fh, hnew, NoFault))
    /\ rt' = [rt EXCEPT !.pc = "reopen"]
    /\ RtIdle

TrReopen ==
    /\ rt.pc = "reopen"
    /\ open_wrapper(rt.ino, [append |-> FALSE])
    /\ rt' = IF DOMAIN handlers' = DOMAIN handlers
             THEN [rt EXCEPT !.pc = "failed"]
             ELSE [rt EXCEPT !.pc = "reread",
                             !.fh = Min(DOMAIN handlers' \ DOMAIN handlers)]
    /\ RtIdle

TrRead ==
    /\ rt.pc = "reread"
    /\ read_wrapper(rt.ino, rt.fh, 0, TrMaxLen + 1)
    /\ rt' = [rt EXCEPT !.pc = "done",
                        !.data = Unwrap(read_reply(rt.fh, 0, TrMaxLen + 1))]
    /\ RtIdle

TrNext ==
    \/ RtCreate \/ RtWrite \/ RtRelease \/ RtLookup \/ RtOpen
    \/ TrSetattr \/ TrClose \/ TrReopen \/ TrRead

SpecTruncate == TrInit /\ [][TrNext]_vars

\* C11: after open, setattr(size = s) without a write, and release, the
\* object decodes to the content of the file cut or zero-extended to s bytes
\* and carries user.real_size = s, and a later read through the mount
\* returns those s bytes.
C11_TruncateCommitted ==
    /\ rt.pc \in {"reopen", "reread", "done"} =>
          /\ Decode(fs[RtPath].blob) = Some(set_len(rt.B, rt.size))
          /\ fs[RtPath].real_size = Some(rt.size)
    /\ rt.pc = "done" => rt.data = set_len(rt.B, rt.size)

-----------------------------------------------------------------------------
(* Appending to an existing file (tests/glitches.rs, append): the file is  *)
(* created with content B and released, then opened with O_APPEND, written *)
(* through that handle at any offsets, and released.  `rt` holds the bytes *)
(* appended so far (data) and the offset of the last write (off).          *)

ApMaxLen == 2        \* longest content before the append, longest write

ApInit ==
    /\ Mounted(0)
    /\ \E B \in SeqsUpTo(ApMaxLen) :
          rt = [pc |-> "create", B |-> B, fh |-> 0, ino |-> 0, data |-> <<>>, off |-> 0]
    /\ last = Served("init", -1, "none")
    /\ plain = Empty
    /\ cm = NoCommit

ApOpen ==
    /\ rt.pc = "open"
    /\ open_wrapper(rt.ino, [append |-> TRUE])
    /\ rt' = IF DOMAIN handlers' = DOMAIN handlers
             THEN [rt EXCEPT !.pc = "failed"]
             ELSE [rt EXCEPT !.pc = "append",
                             !.fh = Min(DOMAIN handlers' \ DOMAIN handlers)]
    /\ RtIdle

ApWrite ==
    /\ rt.pc = "append"
    /\ \E offset \in 0..(2 * ApMaxLen), data \in SeqsUpTo(ApMaxLen) :
          /\ Len(rt.data) + Len(data) <= ApMaxLen
          /\ write_wrapper(rt.ino, rt.fh, offset, data)
          /\ rt' = [rt EXCEPT !.data = @ \o data, !.off = offset]
    /\ RtIdle

ApClose ==
    /\ rt.pc = "append"
    /\ \E hnew \in HostFree(fs) : Synced(release_wrapper(rt.ino, rt.fh, hnew, NoFault))
    /\ rt' = [rt EXCEPT !.pc = "closed"]
    /\ RtIdle

ApNext ==
    \/ RtCreate \/ RtWrite \/ RtRelease \/ RtLookup
    \/ ApOpen \/ ApWrite \/ ApClose

SpecAppend == ApInit /\ [][ApNext]_vars

\* C13: a write through a handle opened with the append flag stores its
\* data at the end of the working file for every offset of the request, and
\* after release the file holds the old content followed by the data.
C13_AppendAtEnd ==
    /\ rt.pc # "failed"
    /\ rt.pc = "append" => wfiles[handlers[rt.fh].file] = rt.B \o rt.data
    /\ rt.pc = "closed" =>
          /\ Decode(fs[RtPath].blob) = Some(rt.B \o rt.data)
          /\ (rt.data = <<>> \/ fs[RtPath].real_size = Some(Len(rt.B) + Len(rt.data)))

\* two bytes were appended to a file of two bytes, the last of them by a
\* write sent with offset 0, and the handle is released
C13_Witness ==
    /\ rt.pc = "closed"
    /\ Len(rt.B) = ApMaxLen
    /\ Len(rt.data) = ApMaxLen
    /\ rt.off = 0
    /\ Decode(fs[RtPath].blob) = Some(rt.B \o rt.data)

-----------------------------------------------------------------------------
(* The mount over a tree: directories, renames and listings, with and      *)
(* without --convert, on a data directory that may hold an uncompressed    *)
(* file.  The kernel sends mkdir and create only for a name whose lookup   *)
(* replied ENOENT.  `rt` holds the last request and, for a rename, what    *)
(* the source was before it.                                               *)

DirMaxAlloc == 2     \* mount inodes handed out in one run
DirDepth == 2        \* deepest path below the data directory
DirMaxOpen == 1      \* file handles open at the same time

CacheName == ".fuse-zstd-inode_cache"
DirNames == {"a", "b"}
DirInos == {FUSE_ROOT_ID} \cup ((U64_MAX - DirMaxAlloc)..U64_MAX)

\* the uncompressed file the data directory may hold when it is mounted
PlainPath == join(data_dir, "a")
PlainFile == [kind |-> "file", blob |-> Raw(<<1>>), ino |-> None, real_size |-> None,
              hino |-> 2, synced |-> TRUE]

DirInit ==
    /\ convert \in BOOLEAN
    /\ \E scratch \in BOOLEAN, legacy \in BOOLEAN :
          fs = [p \in {cache_path}
                      \cup (IF scratch THEN {join(cache_path, "db")} ELSE {})
                      \cup (IF legacy THEN {PlainPath} ELSE {}) |->
                   IF p = cache_path THEN NewDir(1)
                   ELSE IF p = PlainPath THEN PlainFile
                   ELSE NewDir(3)]
    /\ inode_idx = U64_MAX
    /\ root_ino_idx = None
    /\ compression_level = 0
    /\ inode_cache = Empty
    /\ handlers = Empty
    /\ data_dir_inode_mapping = Empty
    /\ mount_point_inode_mapping = Empty
    /\ wfiles = Empty
    /\ last = Served("init", -1, "none")
    /\ plain = Empty
    /\ cm = NoCommit
    /\ rt = [op |-> "init"]

\* the run stays within its bounds; the monitors of the other specifications
\* are left alone
TreeIdle(alloc, depth) ==
    /\ U64_MAX - inode_idx' <= alloc
    /\ \A p \in DOMAIN fs' : Len(p) <= depth
    /\ UNCHANGED <<last, plain, cm, convert>>

DirIdle == TreeIdle(DirMaxAlloc, DirDepth)

\* a request that is no rename of a regular file onto another name
DirDone == rt' = [op |-> "other"]

\* what a read of the whole file `obj` returns through a handle that is
\* opened under the mount inode `ino`
MountContent(ino, obj) ==
    IF ino \in DOMAIN data_dir_inode_mapping
    THEN {Some(wfiles[handlers[fh].file]) : fh \in data_dir_inode_mapping[ino]}
    ELSE {Decode(obj.blob)}

DirLookup ==
    /\ \E parent_ino \in DirInos, name \in DirNames \cup {CacheName} :
          lookup_wrapper(parent_ino, name)
    /\ DirDone
    /\ DirIdle

DirReaddir ==
    /\ \E ino \in DirInos : readdir_wrapper(ino)
    /\ DirDone
    /\ DirIdle

TreeMkdir(inos, names) ==
    /\ \E parent_ino \in inos, name \in names :
          /\ lookup_reply(parent_ino, name) = {0}
          /\ mkdir_wrapper(parent_ino, name, HostNext(fs))
    /\ DirDone

DirMkdir == TreeMkdir(DirInos, DirNames \cup {CacheName}) /\ DirIdle

DirRmdir ==
    /\ \E parent_ino \in DirInos, name \in DirNames \cup {CacheName} :
          rmdir_wrapper(parent_ino, name)
    /\ DirDone
    /\ DirIdle

\* the kinds of the objects the name resolves to on the mount
LookupKinds(parent_ino, name) ==
    {l.fs[join(l.dir, l.entry)].kind : l \in {x \in lookup_result(parent_ino, name) : x.ino # 0}}

\* the handles whose refs name the mount inode `ino`
BoundTo(h, ino) ==
    {fh \in DOMAIN h : IsSome(h[fh].refs)
                       /\ Unwrap(h[fh].refs).inode.mount_point_inode = ino}

\* the kernel refuses to rename a file over a directory or a directory over a file;
\* rt.open are the handles of the renamed file that held its path
TreeRename(inos, names) ==
    \E parent_ino \in inos, name \in names, newparent_ino \in inos, newname \in names :
          \E r \in rename_result(parent_ino, name, newparent_ino, newname) :
             /\ LookupKinds(newparent_ino, newname) \subseteq LookupKinds(parent_ino, name)
             /\ rename_wrapper(parent_ino, name, newparent_ino, newname)
             /\ fs' = r.fs /\ inode_cache' = r.inode_cache /\ handlers' = r.t.h
             /\ IF r.err = "ok" /\ Unwrap(r.src).kind = "file" /\ r.from # r.to
                THEN rt' = [op |-> "rename", ino |-> r.ino, from |-> r.from, to |-> r.to,
                            parent |-> parent_ino, name |-> name,
                            newparent |-> newparent_ino, newname |-> newname,
                            blob |-> Unwrap(r.src).blob,
                            content |-> MountContent(r.ino, Unwrap(r.src)),
                            open |-> {fh \in BoundTo(handlers, r.ino) :
                                        Unwrap(handlers[fh].refs).path = r.from}]
                ELSE DirDone

DirRename == TreeRename(DirInos, DirNames \cup {CacheName}) /\ DirIdle

TreeCreate(inos, room) ==
    /\ HasRoom(room)
    /\ \E parent_ino \in inos, name \in DirNames :
          /\ lookup_reply(parent_ino, name) = {0}
          /\ create_wrapper(parent_ino, name, [append |-> FALSE], HostNext(fs), NoFault)
    /\ DirDone

DirCreate == TreeCreate(DirInos, DirMaxOpen) /\ DirIdle

TreeWrite ==
    /\ \E fh \in OpenFhs, data \in Contents :
          /\ Fits(fh, 0, data, MaxLen)
          /\ write_wrapper(AnyIno, fh, 0, data)
    /\ DirDone

TreeRelease ==
    /\ \E fh \in OpenFhs : Synced(release_wrapper(AnyIno, fh, HostNext(fs), NoFault))
    /\ DirDone

DirRelease == TreeRelease /\ DirIdle

DirUnlink ==
    /\ \E parent_ino \in DirInos, name \in DirNames : unlink_wrapper(parent_ino, name)
    /\ DirDone
    /\ DirIdle

\* files are made and removed, not written
DirNext ==
    \/ DirLookup \/ DirReaddir \/ DirMkdir \/ DirRmdir \/ DirRename
    \/ DirCreate \/ DirRelease \/ DirUnlink

SpecTree == DirInit /\ [][DirNext]_vars

-----------------------------------------------------------------------------
(* Renames of files that were written: the mount without --convert on an   *)
(* empty data directory (tests/cmdline.rs, mv).                            *)

RnMaxAlloc == 3      \* mount inodes handed out in one run
RnDepth == 1         \* deepest path below the data directory
RnMaxOpen == 1       \* file handles open at the same time

\* with RnDepth = 1 every object is a child of the data directory
RnInos == {FUSE_ROOT_ID}
RnIdle == TreeIdle(RnMaxAlloc, RnDepth)

RnInit ==
    /\ Mounted(0)
    /\ last = Served("init", -1, "none")
    /\ plain = Empty
    /\ cm = NoCommit
    /\ rt = [op |-> "init"]

RnCreate == TreeCreate(RnInos, RnMaxOpen) /\ RnIdle
RnWrite == TreeWrite /\ RnIdle
RnRelease == TreeRelease /\ RnIdle
RnMkdir == TreeMkdir(RnInos, DirNames) /\ RnIdle
RnRename == TreeRename(RnInos, DirNames) /\ RnIdle

RnNext ==
    \/ RnCreate \/ RnWrite \/ RnRelease \/ RnMkdir \/ RnRename

SpecRename == RnInit /\ [][RnNext]_vars

\* C14: right after a rename of a regular file onto another name, whether
\* or not the target existed: the source object is gone from the data
\* directory and its name no longer resolves, the target holds the frame
\* the source held and reads as the source did, lookup of the target replies
\* the mount inode the source had, and the inode cache binds that inode to
\* the path of the target.
C14_RenameMoves ==
    rt.op = "rename" =>
       /\ rt.from \notin DOMAIN fs
       /\ lookup_reply(rt.parent, rt.name) = {0}
       /\ rt.to \in DOMAIN fs
       /\ fs[rt.to].kind = "file"
       /\ fs[rt.to].blob = rt.blob
       /\ MountContent(rt.ino, fs[rt.to]) = rt.content
       /\ fs[rt.to].ino = Some(rt.ino)
       /\ lookup_reply(rt.newparent, rt.newname) = {rt.ino}
       /\ get_inode_path(inode_cache, rt.ino) = Some(rt.to)

\* C26: a rename of a regular file onto a name that is already backed by
\* another file leaves no binding of the target's former mount inode in the
\* inode cache and clears the refs of every handle that was bound to it.
C26_TargetForgotten ==
    \A parent_ino \in RnInos, name \in DirNames, newparent_ino \in RnInos, newname \in DirNames :
       LookupKinds(newparent_ino, newname) \subseteq LookupKinds(parent_ino, name)
          => \A l \in lookup_result(parent_ino, name) :
                \A r \in rename_result(parent_ino, name, newparent_ino, newname) :
                   (/\ r.err = "ok"
                    /\ Unwrap(r.src).kind = "file"
                    /\ r.from # r.to
                    /\ r.to \in DOMAIN l.fs
                    /\ IsSome(l.fs[r.to].ino))
                      => LET former == Unwrap(l.fs[r.to].ino)
                         IN /\ get_inode_path(r.inode_cache, former) = None
                            /\ \A fh \in BoundTo(handlers, former) : r.t.h[fh].refs = None

\* the commit `r` of the handle `fh` made a new object at the path the
\* renamed file had, holding the working file, and left the target alone
CommitsToOldPath(fh, r) ==
    /\ r.res = "ok"
    /\ r.commit = "new"
    /\ rt.from \in DOMAIN r.fs
    /\ r.fs[rt.from].kind = "file"
    /\ Decode(r.fs[rt.from].blob) = Some(wfiles[handlers[fh].file])
    /\ rt.to \in DOMAIN r.fs
    /\ r.fs[rt.to] = fs[rt.to]

\* C27: right after a rename of a regular file, every handle that was open
\* on it under its old path still records the old path; its fsync, and its
\* flush or release when it is dirty, creates an object at the old path and
\* leaves the object at the new path as it is.
C27_CommitsToOldPath ==
    rt.op = "rename" =>
       \A fh \in rt.open :
          /\ fh \in DOMAIN handlers
          /\ handlers[fh].refs =
                Some([inode |-> [mount_point_inode |-> rt.ino, data_dir_inode |-> rt.ino],
                      path |-> rt.from])
          /\ CommitsToOldPath(fh, fsync_wrapper(rt.ino, fh, HostNext(fs), NoFault))
          /\ handlers[fh].needs_sync
                => /\ CommitsToOldPath(fh, flush_wrapper(rt.ino, fh, HostNext(fs), NoFault))
                   /\ CommitsToOldPath(fh, release_wrapper(rt.ino, fh, HostNext(fs), NoFault))

\* a file was renamed while a dirty handle was open on it
C27_Witness ==
    /\ rt.op = "rename"
    /\ \E fh \in rt.open : /\ handlers[fh].needs_sync
                           /\ wfiles[handlers[fh].file] # <<>>
                           /\ Decode(fs[rt.to].blob) # Some(wfiles[handlers[fh].file])

-----------------------------------------------------------------------------
(* Properties of the tree (SpecTree).  They are stated over what lookup    *)
(* and readdir reply, and leave, in every state the mount reaches.         *)

\* `name` of the directory `dir` is backed in `f` by name.zst carrying `ino`
Backed(f, dir, name, ino) ==
    /\ join(dir, Zst(name)) \in DOMAIN f
    /\ f[join(dir, Zst(name))].kind = "file"
    /\ f[join(dir, Zst(name))].ino = Some(ino)

\* every regular file a lookup resolves is backed
LookupBacked ==
    \A parent_ino \in DirInos, name \in DirNames \cup {CacheName} :
       \A l \in lookup_result(parent_ino, name) :
          (l.ino # 0 /\ l.fs[join(l.dir, l.entry)].kind = "file")
             => Backed(l.fs, l.dir, name, l.ino)

\* every regular file a listing emits is backed
ReaddirBacked ==
    \A ino \in DirInos : \A r \in readdir_result(ino) :
       \A i \in 1..Len(r.reply) :
          r.reply[i].kind = "file" => Backed(r.fs, r.dir, r.reply[i].name, r.reply[i].ino)

\* C15 as stated: in normal and in convert mode every regular file name that
\* readdir emits or lookup resolves has its name.zst in the data directory,
\* carrying user.ino.
C15_OneBacking == LookupBacked /\ ReaddirBacked

\* C15, amended: every regular file name that lookup resolves, in both modes,
\* and every regular file name that readdir emits without --convert, has its
\* name.zst in the data directory, carrying user.ino.
C15_BackedUnlessListedInConvert == LookupBacked /\ (~convert => ReaddirBacked)

\* without --convert the data directory holds a.zst beside the uncompressed
\* file a, and the listing of the root emits the name a
C15_Witness ==
    /\ ~convert
    /\ PlainPath \in DOMAIN fs
    /\ join(data_dir, "a.zst") \in DOMAIN fs
    /\ \E r \in readdir_result(FUSE_ROOT_ID) :
          \E i \in 1..Len(r.reply) : r.reply[i].name = "a" /\ r.reply[i].kind = "file"

\* C16: whatever requests were served, a directory exists at the cache path
\* of the data directory, no listing of the root emits it, no lookup on the
\* root resolves it, and rmdir of it on the root replies ENOENT.
C16_CacheDirProtected ==
    /\ cache_path \in DOMAIN fs
    /\ fs[cache_path].kind = "dir"
    /\ \A r \in readdir_result(FUSE_ROOT_ID) :
          \A i \in 1..Len(r.reply) :
             ~(r.reply[i].kind = "dir" /\ join(r.dir, r.reply[i].name) = cache_path)
    /\ \A l \in lookup_result(FUSE_ROOT_ID, CacheName) :
          l.ino = 0 \/ join(l.dir, l.entry) # cache_path
    /\ rmdir_reply(join(data_dir, CacheName)) = "ENOENT"

\* a directory of the mount was renamed onto the empty cache directory, so
\* the cache path carries its user.ino, and an rmdir of the cache directory
\* has since dropped that inode from the inode cache
C16_Witness ==
    /\ cache_path \in DOMAIN fs
    /\ IsSome(fs[cache_path].ino)
    /\ Unwrap(fs[cache_path].ino) \notin DOMAIN inode_cache
    /\ read_dir(fs, cache_path) = {}

\* the regular files of the data directory whose name lacks the .zst suffix
Uncompressed(f) == {p \in DOMAIN f : f[p].kind = "file" /\ ~ends_with_zst(file_name(p))}

\* no listing emits the uncompressed file `p` or touches it: its name is
\* emitted at most once, and only for name.zst
Unlisted(p) ==
    \A ino \in DirInos : \A r \in readdir_result(ino) :
       /\ p \in DOMAIN r.fs /\ r.fs[p] = fs[p]
       /\ \A i \in 1..Len(r.reply) :
             (r.dir = parent(p) /\ r.reply[i].name = file_name(p))
                => /\ r.reply[i].kind = "dir" \/ Backed(r.fs, r.dir, r.reply[i].name, r.reply[i].ino)
                   /\ \A j \in 1..Len(r.reply) : r.reply[j].name = r.reply[i].name => j = i

\* no lookup resolves the uncompressed file `p` or touches it: lookup of its
\* name replies ENOENT unless name.zst exists
Unresolved(p) ==
    \A parent_ino \in DirInos, name \in DirNames \cup {CacheName} :
       \A l \in lookup_result(parent_ino, name) :
          /\ p \in DOMAIN l.fs /\ l.fs[p] = fs[p]
          /\ join(l.dir, l.entry) # p
          /\ (l.dir = parent(p) /\ name = file_name(p) /\ join(l.dir, Zst(name)) \notin DOMAIN fs)
                => l.ino = 0

\* a step without --convert leaves every uncompressed file as it is
UncompressedKept ==
    ~convert => \A p \in Uncompressed(fs) : p \in DOMAIN fs' /\ fs'[p] = fs[p]

\* C20: without --convert a regular file of the data directory whose name
\* lacks the .zst suffix is not emitted by readdir, is not resolved by lookup
\* of its name (ENOENT unless name.zst exists), and no request modifies or
\* deletes it.
C20_UncompressedUntouched ==
    /\ [](~convert => \A p \in Uncompressed(fs) : Unlisted(p) /\ Unresolved(p))
    /\ [][UncompressedKept]_vars

\* without --convert: a.zst was created beside the uncompressed file a and
\* renamed to b.zst, and the uncompressed file is as it was
C20_Witness ==
    /\ ~convert
    /\ rt.op = "rename"
    /\ rt.from = join(data_dir, "a.zst")
    /\ rt.to = join(data_dir, "b.zst")
    /\ Uncompressed(fs) = {PlainPath}
    /\ fs[PlainPath] = PlainFile

-----------------------------------------------------------------------------
(* The file handles of one file: create, open, release and unlink in any   *)
(* order.  `rt` holds the handles returned so far (returned), whether the  *)
(* last one returned had been returned before (again), and whether an open *)
(* or create disturbed a handle that was open (clash).                     *)

FhMaxOpen == 3       \* file handles open at the same time

FhInit ==
    /\ Mounted(0)
    /\ last = Served("init", -1, "none")
    /\ plain = Empty
    /\ cm = NoCommit
    /\ rt = [returned |-> {}, again |-> FALSE, clash |-> FALSE]

FhIdle == WithinAlloc(inode_idx') /\ UNCHANGED <<last, plain, cm, convert>>

\* the monitor after an open or create
FhReturned ==
    rt' = IF handlers' = handlers THEN rt
          ELSE [returned |-> rt.returned \cup (DOMAIN handlers' \ DOMAIN handlers),
                again |-> (DOMAIN handlers' \ DOMAIN handlers) \cap rt.returned # {},
                clash |-> \/ rt.clash
                          \/ Cardinality(DOMAIN handlers' \ DOMAIN handlers) # 1
                          \/ \E fh \in DOMAIN handlers :
                                fh \notin DOMAIN handlers' \/ handlers'[fh] # handlers[fh]]

FhCreate ==
    /\ HasRoom(FhMaxOpen)
    /\ \E name \in FileNames, hnew \in HostFree(fs) :
          create_wrapper(FUSE_ROOT_ID, name, [append |-> FALSE], hnew, NoFault)
    /\ FhReturned
    /\ FhIdle

FhOpen ==
    /\ HasRoom(FhMaxOpen)
    /\ \E ino \in InoInputs : open_wrapper(ino, [append |-> FALSE])
    /\ FhReturned
    /\ FhIdle

FhRelease ==
    /\ \E fh \in OpenFhs, hnew \in HostFree(fs) :
          Synced(release_wrapper(AnyIno, fh, hnew, NoFault))
    /\ rt' = [rt EXCEPT !.again = FALSE]
    /\ FhIdle

FhUnlink ==
    /\ \E name \in FileNames : unlink_wrapper(FUSE_ROOT_ID, name)
    /\ UNCHANGED rt
    /\ FhIdle

FhNext == FhCreate \/ FhOpen \/ FhRelease \/ FhUnlink

SpecHandles == FhInit /\ [][FhNext]_vars

\* C19 as stated: no open or create returns a handle that an earlier open
\* or create returned, released or not.
C19_NeverReturnedAgain == ~rt.again

\* C19, amended: an open or create returns a handle that no open handle
\* has, and leaves every open handle as it was; the number of a released
\* handle may be returned again.
C19_NoLiveClash == ~rt.clash

\* three handles are open and the last one returned had been returned,
\* and released, before
C19_Witness ==
    /\ Cardinality(DOMAIN handlers) = FhMaxOpen
    /\ rt.again
    /\ ~rt.clash

-----------------------------------------------------------------------------
(* The allocation of mount inodes over the whole width of the counter, and *)
(* across restarts of the process: directories and files are made and      *)
(* removed on a data directory that holds a compressed file without        *)
(* user.ino.  `rt` follows the allocations of the running process: the     *)
(* inodes handed out (given), the last one (prev), whether it was new to   *)
(* the process (fresh), below the one before (down) and stored on no       *)
(* object (unused), and whether the counter had rotated before it.         *)

AlMaxOpen == 1       \* file handles open at the same time

AlNames == {"a"}
AlLegacy == join(data_dir, "b.zst")

AlInit ==
    /\ fs = [p \in {cache_path, AlLegacy} |->
               IF p = cache_path THEN NewDir(1)
               ELSE [NewFile(2) EXCEPT !.blob = Encode(<<1>>, 0), !.synced = TRUE]]
    /\ convert = FALSE
    /\ inode_idx = U64_MAX
    /\ root_ino_idx = None
    /\ compression_level = 0
    /\ inode_cache = Empty
    /\ handlers = Empty
    /\ data_dir_inode_mapping = Empty
    /\ mount_point_inode_mapping = Empty
    /\ wfiles = Empty
    /\ last = Served("init", -1, "none")
    /\ plain = Empty
    /\ cm = NoCommit
    /\ rt = [given |-> {}, prev |-> 0, fresh |-> TRUE, down |-> TRUE, unused |-> TRUE,
             rotated |-> FALSE, before |-> FALSE, restarted |-> FALSE]

\* the inodes stored in user.ino of the objects of `f`
Stored(f) == {Unwrap(f[p].ino) : p \in {q \in DOMAIN f : IsSome(f[q].ino)}}

\* the inodes a step stores on objects that carried none: its allocations
Allocated ==
    {Unwrap(fs'[p].ino) :
        p \in {q \in DOMAIN fs' : /\ IsSome(fs'[q].ino)
                                  /\ q \notin DOMAIN fs \/ ~IsSome(fs[q].ino)}}

\* the monitor after a request; a request of this specification allocates at
\* most one inode
AlAllocated ==
    rt' = IF Allocated = {} THEN rt
          ELSE LET res == CHOOSE ino \in Allocated : TRUE
               IN [given |-> rt.given \cup {res},
                   prev |-> res,
                   fresh |-> res \notin rt.given /\ Cardinality(Allocated) = 1,
                   down |-> rt.prev = 0 \/ res < rt.prev,
                   unused |-> res \notin Stored(fs),
                   rotated |-> rt.rotated \/ inode_idx' > inode_idx,
                   before |-> rt.rotated,
                   restarted |-> rt.restarted]

AlIdle == UNCHANGED <<last, plain, cm, convert>>

AlMkdir ==
    /\ \E name \in AlNames :
          /\ lookup_reply(FUSE_ROOT_ID, name) = {0}
          /\ mkdir_wrapper(FUSE_ROOT_ID, name, HostNext(fs))
    /\ AlAllocated
    /\ AlIdle

AlRmdir ==
    /\ \E name \in AlNames : rmdir_wrapper(FUSE_ROOT_ID, name)
    /\ AlAllocated
    /\ AlIdle

AlCreate ==
    /\ HasRoom(AlMaxOpen)
    /\ \E name \in AlNames :
          /\ lookup_reply(FUSE_ROOT_ID, name) = {0}
          /\ create_wrapper(FUSE_ROOT_ID, name, [append |-> FALSE], HostNext(fs), NoFault)
    /\ AlAllocated
    /\ AlIdle

AlRelease ==
    /\ \E fh \in OpenFhs : Synced(release_wrapper(AnyIno, fh, HostNext(fs), NoFault))
    /\ AlAllocated
    /\ AlIdle

AlUnlink ==
    /\ \E name \in AlNames : unlink_wrapper(FUSE_ROOT_ID, name)
    /\ AlAllocated
    /\ AlIdle

AlLookup ==
    /\ \E name \in AlNames \cup {"b"} : lookup_wrapper(FUSE_ROOT_ID, name)
    /\ AlAllocated
    /\ AlIdle

AlReaddir ==
    /\ readdir_wrapper(FUSE_ROOT_ID)
    /\ AlAllocated
    /\ AlIdle

\* the process ends and is started again on the data directory, once in a
\* run: main reads the counter from user.ino_idx, the tables of the process
\* start empty
AlRestart ==
    /\ ~rt.restarted
    /\ inode_idx' = IF IsSome(root_ino_idx) THEN Unwrap(root_ino_idx) ELSE U64_MAX
    /\ inode_cache' = Empty
    /\ handlers' = Empty
    /\ data_dir_inode_mapping' = Empty
    /\ mount_point_inode_mapping' = Empty
    /\ wfiles' = Empty
    /\ rt' = [given |-> {}, prev |-> 0, fresh |-> TRUE, down |-> TRUE, unused |-> TRUE,
              rotated |-> rt.rotated, before |-> rt.rotated, restarted |-> TRUE]
    /\ UNCHANGED <<fs, root_ino_idx, compression_level>>
    /\ AlIdle

AlNext ==
    \/ AlMkdir \/ AlRmdir \/ AlCreate \/ AlRelease \/ AlUnlink
    \/ AlLookup \/ AlReaddir \/ AlRestart

SpecAlloc == AlInit /\ [][AlNext]_vars

\* C17: every newly allocated mount inode differs from
\* FUSE_ROOT_ID, from every inode the process allocated before, and is
\* below the one allocated before it, the exhaustion of the counter included.
C17_AlwaysDecreasing ==
    /\ rt.prev # FUSE_ROOT_ID
    /\ rt.fresh
    /\ rt.down

\* user.ino_idx of the data directory holds the counter once it was stepped
CounterStored ==
    IF root_ino_idx = None THEN inode_idx = U64_MAX ELSE root_ino_idx = Some(inode_idx)

\* C18: after every allocation user.ino_idx equals the next inode
\* to hand out, and no newly allocated inode, before or after a restart,
\* equals an inode stored in user.ino of an object.
C18_NeverStoredAgain == CounterStored /\ rt.unused

-----------------------------------------------------------------------------
(* The mount with --convert on a data directory that holds an uncompressed *)
(* file a and, in the overlap case, a compressed a.zst beside it           *)
(* (tests/convert.rs: uncompressed, overlap).                              *)

CvMaxLen == 2        \* longest uncompressed file
CvMaxAlloc == 3      \* mount inodes handed out in one run
CvMaxOpen == 1       \* file handles open at the same time

CvNames == {"a", "b"}
CvInos == {FUSE_ROOT_ID} \cup ((U64_MAX - CvMaxAlloc)..U64_MAX)
CvPlain == join(data_dir, "a")
CvZst == join(data_dir, "a.zst")

\* rt keeps what the data directory held when it was mounted
CvInit ==
    /\ convert = TRUE
    /\ \E overlap \in BOOLEAN, bytes \in SeqsUpTo(CvMaxLen), packed \in SeqsUpTo(1) :
          /\ fs = [p \in {cache_path, CvPlain} \cup (IF overlap THEN {CvZst} ELSE {}) |->
                     IF p = cache_path THEN NewDir(1)
                     ELSE IF p = CvPlain
                     THEN [PlainFile EXCEPT !.blob = Raw(bytes)]
                     ELSE [NewFile(3) EXCEPT !.blob = Encode(packed, 0), !.synced = TRUE]]
          /\ rt = [overlap |-> overlap, bytes |-> bytes, packed |-> packed]
    /\ inode_idx = U64_MAX
    /\ root_ino_idx = None
    /\ compression_level = 0
    /\ inode_cache = Empty
    /\ handlers = Empty
    /\ data_dir_inode_mapping = Empty
    /\ mount_point_inode_mapping = Empty
    /\ wfiles = Empty
    /\ last = Served("init", -1, "none")
    /\ plain = Empty
    /\ cm = NoCommit

CvIdle ==
    /\ U64_MAX - inode_idx' <= CvMaxAlloc
    /\ UNCHANGED <<last, plain, cm, convert, rt>>

CvLookup ==
    /\ \E name \in CvNames \cup {"a.zst"} : lookup_wrapper(FUSE_ROOT_ID, name)
    /\ CvIdle

CvReaddir ==
    /\ readdir_wrapper(FUSE_ROOT_ID)
    /\ CvIdle

CvCreate ==
    /\ HasRoom(CvMaxOpen)
    /\ \E name \in CvNames :
          /\ lookup_reply(FUSE_ROOT_ID, name) = {0}
          /\ create_wrapper(FUSE_ROOT_ID, name, [append |-> FALSE], HostNext(fs), NoFault)
    /\ CvIdle

CvOpen ==
    /\ HasRoom(CvMaxOpen)
    /\ \E ino \in CvInos : open_wrapper(ino, [append |-> FALSE])
    /\ CvIdle

CvRelease ==
    /\ \E fh \in OpenFhs : Synced(release_wrapper(AnyIno, fh, HostNext(fs), NoFault))
    /\ CvIdle

CvUnlink ==
    /\ \E name \in CvNames : unlink_wrapper(FUSE_ROOT_ID, name)
    /\ CvIdle

CvNext ==
    \/ CvLookup \/ CvReaddir \/ CvCreate \/ CvOpen \/ CvRelease \/ CvUnlink

SpecConvert == CvInit /\ [][CvNext]_vars

\* the uncompressed file `name` of the data directory, and name.zst
CvPlainOf(name) == join(data_dir, name)
CvZstOf(name) == join(data_dir, Zst(name))
IsFile(f, p) == p \in DOMAIN f /\ f[p].kind = "file"

\* C21: with --convert, a lookup of a name that only the uncompressed
\* regular file carries leaves name.zst decoding to the bytes of that file,
\* with user.real_size their length, the uncompressed file deleted, and
\* replies the inode that user.ino of name.zst holds.
C21_LookupConverts ==
    \A name \in CvNames :
       (convert /\ IsFile(fs, CvPlainOf(name)) /\ CvZstOf(name) \notin DOMAIN fs)
          => \A l \in lookup_result(FUSE_ROOT_ID, name) :
                /\ IsFile(l.fs, CvZstOf(name))
                /\ Decode(l.fs[CvZstOf(name)].blob) = Some(RawBytes(fs[CvPlainOf(name)].blob))
                /\ l.fs[CvZstOf(name)].real_size = Some(Len(RawBytes(fs[CvPlainOf(name)].blob)))
                /\ CvPlainOf(name) \notin DOMAIN l.fs
                /\ l.ino # 0
                /\ l.fs[CvZstOf(name)].ino = Some(l.ino)

\* the data directory held only the uncompressed file a, of two bytes, and a
\* lookup has left a.zst in its place: a.zst decodes to the bytes, carries
\* an inode that the inode cache binds to it, and a is gone
C21_Witness ==
    /\ ~rt.overlap
    /\ Len(rt.bytes) = CvMaxLen
    /\ CvPlain \notin DOMAIN fs
    /\ IsFile(fs, CvZst)
    /\ Decode(fs[CvZst].blob) = Some(rt.bytes)
    /\ IsSome(fs[CvZst].ino)
    /\ get_inode_path(inode_cache, Unwrap(fs[CvZst].ino)) = Some(CvZst)
    /\ handlers = Empty

\* C22: with --convert, when a directory holds both name and name.zst, a
\* lookup of name resolves to name.zst, leaves what name.zst decodes to as
\* it was and deletes the uncompressed file; a lookup of name.zst replies
\* ENOENT.
C22_OverlapKeepsCompressed ==
    \A name \in CvNames :
       (convert /\ IsFile(fs, CvPlainOf(name)) /\ IsFile(fs, CvZstOf(name)))
          => /\ \A l \in lookup_result(FUSE_ROOT_ID, name) :
                   /\ l.ino # 0
                   /\ join(l.dir, l.entry) = CvZstOf(name)
                   /\ IsFile(l.fs, CvZstOf(name))
                   /\ l.fs[CvZstOf(name)].ino = Some(l.ino)
                   /\ Decode(l.fs[CvZstOf(name)].blob) = Decode(fs[CvZstOf(name)].blob)
                   /\ CvPlainOf(name) \notin DOMAIN l.fs
             /\ lookup_reply(FUSE_ROOT_ID, Zst(name)) = {0}

\* the data directory held a and a.zst with different bytes, and a lookup
\* has deleted a: a.zst decodes to what it held and carries an inode
C22_Witness ==
    /\ rt.overlap
    /\ rt.bytes # rt.packed
    /\ CvPlain \notin DOMAIN fs
    /\ IsFile(fs, CvZst)
    /\ Decode(fs[CvZst].blob) = Some(rt.packed)
    /\ IsSome(fs[CvZst].ino)

-----------------------------------------------------------------------------
(* Properties of the open-file table and of path resolution, stated over   *)
(* what OpenedFiles and the dispatcher return in every state the mount     *)
(* reaches (Spec).                                                         *)

AllFlags == {[append |-> FALSE], [append |-> TRUE]}
FhInputs == 0..MaxOpen

\* the open handles bound to the inode: their refs name it
Bound(ino) ==
    {fh \in DOMAIN handlers :
        IsSome(handlers[fh].refs) /\ Unwrap(handlers[fh].refs).inode = MkInode(ino)}

\* C23: path resolution of the inode of an existing object that no handle
\* has open gives, after its cache entry was evicted, the path it gave
\* before.
C23_EvictionInvisible ==
    \A ino \in DOMAIN inode_cache :
       (/\ inode_cache[ino] \in DOMAIN fs
        /\ fs[inode_cache[ino]].ino = Some(ino)
        /\ Bound(ino) = {})
          => get_path_miss(ino) = get_path(ino)

\* C24: while a handle with uncleared refs is bound to an inode, path
\* resolution of the inode on a cache miss succeeds and returns the path
\* recorded on such a handle.
C24_OpenStaysResolvable ==
    \A ino \in InoInputs :
       Bound(ino) # {}
          => /\ get_path_miss(ino) # {}
             /\ get_path_miss(ino) \subseteq {Unwrap(handlers[fh].refs).path : fh \in Bound(ino)}

\* C25: for a handle that is not in the table, write, flush and fsync reply
\* EBADF and read replies ENOENT, and none of them adds a handle or commits.
C25_UnknownHandle ==
    \A fh \in FhInputs \ DOMAIN handlers :
       /\ write_reply(fh) = "EBADF"
       /\ read_reply(fh, 0, MaxLen) = None
       /\ \A r \in {flush_wrapper(AnyIno, fh, HostNext(fs), NoFault),
                     fsync_wrapper(AnyIno, fh, HostNext(fs), NoFault)} :
             /\ r.res = "EBADF"
             /\ r.t = Table
             /\ r.fs = fs
             /\ r.commit = "none"

\* C28: duplicate(inode, flags), when a handle is bound to the inode, returns
\* a handle that was not open, with the flags given, not dirty, with the refs
\* and the working file of the handle it copies, and indexed under the
\* inode; when no handle is bound to the inode it returns None and leaves
\* the table as it is.
C28_DuplicateIndexed ==
    \A ino \in InoInputs, flags \in AllFlags :
       IF Bound(ino) = {}
       THEN duplicate(Table, ino, flags, 0) = [t |-> Table, ret |-> None]
       ELSE /\ ino \in DOMAIN data_dir_inode_mapping
            /\ \A pick \in data_dir_inode_mapping[ino] :
                  LET d == duplicate(Table, ino, flags, pick)
                      n == Unwrap(d.ret)
                  IN /\ IsSome(d.ret)
                     /\ n \notin DOMAIN handlers
                     /\ DOMAIN d.t.h = DOMAIN handlers \cup {n}
                     /\ d.t.h[n].flags = flags
                     /\ d.t.h[n].needs_sync = FALSE
                     /\ d.t.h[n].refs = handlers[pick].refs
                     /\ d.t.h[n].file = handlers[pick].file
                     /\ n \in d.t.dd[ino]
                     /\ n \in d.t.mp[ino]

\* one index map after close(fh) as C29 has it: the entry of the inode of
\* `fh` holds the other handles bound to it, and is gone when there is none
ClosedIndex(m, fh) ==
    IF ~IsSome(handlers[fh].refs) THEN m
    ELSE LET ino == Unwrap(handlers[fh].refs).inode.data_dir_inode
             others == Bound(ino) \ {fh}
         IN IF others = {} THEN Del(m, ino) ELSE Put(m, ino, others)

\* C29: close(fh) takes fh, and nothing else, out of the handlers and out
\* of the index set of its inode; the index entry of the inode stays iff
\* another handle bound to the inode is open, and then holds those handles;
\* close of a handle that is not open returns None and changes nothing.
C29_CloseRemovesOnlyFh ==
    \A fh \in FhInputs :
       LET c == close(Table, fh)
       IN IF fh \notin DOMAIN handlers
          THEN c = [t |-> Table, ret |-> None]
          ELSE /\ c.ret = Some(handlers[fh])
               /\ c.t.h = Del(handlers, fh)
               /\ c.t.dd = ClosedIndex(data_dir_inode_mapping, fh)
               /\ c.t.mp = ClosedIndex(mount_point_inode_mapping, fh)

\* C30: after setattr(ino, size), with or without a handle of the inode in
\* the request, the working file of every open handle bound to the inode
\* has length size.
C30_TruncateReachesAll ==
    \A ino \in InoInputs, size \in 0..MaxLen :
       \A fh \in {None} \cup {Some(g) : g \in Bound(ino)} :
          \A g \in Bound(ino) :
             Len(setattr_files(ino, size, fh)[handlers[g].file]) = size

\* C37: when the commit of a flush, an fsync or a release fails at any of
\* its host calls, the handle is still in the open-file table and its
\* needs_sync flag is what it was.
C37_FailedCommitKeepsHandle ==
    \A fh \in DOMAIN handlers, fail \in FailPoints :
       \A r \in {flush_wrapper(AnyIno, fh, HostNext(fs), fail),
                 fsync_wrapper(AnyIno, fh, HostNext(fs), fail),
                 release_wrapper(AnyIno, fh, HostNext(fs), fail)} :
          r.commit = "failed"
             => /\ fh \in DOMAIN r.t.h
                /\ r.t.h[fh].needs_sync = handlers[fh].needs_sync

\* the same for flush and fsync alone
FailedSyncKeepsHandle ==
    \A fh \in DOMAIN handlers, fail \in FailPoints :
       \A r \in {flush_wrapper(AnyIno, fh, HostNext(fs), fail),
                 fsync_wrapper(AnyIno, fh, HostNext(fs), fail)} :
          r.commit = "failed"
             => /\ fh \in DOMAIN r.t.h
                /\ r.t.h[fh].needs_sync = handlers[fh].needs_sync

\* C38: between requests every entry of the inode cache binds its inode to
\* the path of an object that is in the data directory and carries that
\* inode in user.ino.
C38_CacheNamesObjects ==
    \A ino \in DOMAIN inode_cache :
       /\ inode_cache[ino] \in DOMAIN fs
       /\ fs[inode_cache[ino]].ino = Some(ino)

\* C36: an rmdir that the host refuses because the directory is not empty
\* leaves the directory in place, and the inode cache and the open-file
\* table as they were.
C36_FailedRemoveKeepsState ==
    \A parent_ino \in DirInos, name \in DirNames :
       \A parent_path \in get_path(parent_ino) :
          LET r == rmdir_result(parent_path, name)
          IN r.err = "ENOTEMPTY"
                => /\ r.fs = fs
                   /\ r.inode_cache = inode_cache
                   /\ r.t = Table

-----------------------------------------------------------------------------
(* Listing a directory in pieces.  The data directory is mounted with      *)
(* entries the host put there: a compressed file, an uncompressed file, a  *)
(* directory and a symbolic link, none of which has a user.ino yet.  The   *)
(* kernel reads the root with a chain of readdir calls, each into a buffer *)
(* of its own capacity and from the offset of the last entry the reply     *)
(* before held, until a reply is empty.  The directory does not change, so *)
(* fs::read_dir yields its entries in the same order in every call.  rt    *)
(* keeps that order, the offset of the next call, the names the chain has  *)
(* emitted, and whether the chain runs, has ended or was cut by an error.  *)

LsMaxCap == 2        \* entries the largest reply buffer takes
LsMaxAlloc == 3      \* mount inodes handed out in one run

\* what the host may have put into the data directory
LsObjects ==
    (join(data_dir, "a.zst") :> [NewFile(2) EXCEPT !.blob = Encode(<<>>, 0), !.synced = TRUE])
    @@ (join(data_dir, "b") :> [PlainFile EXCEPT !.hino = 3])
    @@ (join(data_dir, "d") :> NewDir(4))
    @@ (join(data_dir, "s") :> [NewFile(5) EXCEPT !.kind = "symlink", !.synced = TRUE])

LsInit ==
    /\ convert \in BOOLEAN
    /\ \E S \in SUBSET DOMAIN LsObjects :
          /\ fs = [p \in S \cup {cache_path} |->
                     IF p = cache_path THEN NewDir(1) ELSE LsObjects[p]]
          /\ \E order \in Orders(S \cup {cache_path}) :
                rt = [order |-> order, pos |-> 0, seen |-> <<>>, state |-> "run"]
    /\ inode_idx = U64_MAX
    /\ root_ino_idx = None
    /\ compression_level = 0
    /\ inode_cache = Empty
    /\ handlers = Empty
    /\ data_dir_inode_mapping = Empty
    /\ mount_point_inode_mapping = Empty
    /\ wfiles = Empty
    /\ last = Served("init", -1, "none")
    /\ plain = Empty
    /\ cm = NoCommit

\* the next readdir of the chain: Filesystem::readdir replies the error of
\* readdir_wrapper, or sends the entries added
LsReaddir ==
    /\ rt.state = "run"
    /\ \E cap \in 1..LsMaxCap :
          LET r == readdir_at(FUSE_ROOT_ID, data_dir, rt.order, rt.pos, cap)
          IN /\ fs' = r.fs
             /\ inode_idx' = r.inode_idx
             /\ root_ino_idx' = r.root_ino_idx
             /\ inode_cache' = r.inode_cache
             /\ rt' = IF r.err # "ok" THEN [rt EXCEPT !.state = "error"]
                      ELSE IF r.reply = <<>> THEN [rt EXCEPT !.state = "end"]
                      ELSE [rt EXCEPT !.pos = r.reply[Len(r.reply)].offset,
                                      !.seen = rt.seen \o [i \in 1..Len(r.reply) |->
                                                              r.reply[i].name]]
    /\ U64_MAX - inode_idx' <= LsMaxAlloc
    /\ UNCHANGED <<compression_level, handlers, data_dir_inode_mapping,
                   mount_point_inode_mapping, wfiles, last, plain, cm, convert>>

\* the directory is read again from the start (rewinddir)
LsRewind ==
    /\ rt.state # "run"
    /\ rt' = [rt EXCEPT !.pos = 0, !.seen = <<>>, !.state = "run"]
    /\ UNCHANGED <<fs, inode_idx, root_ino_idx, inode_cache, compression_level, handlers,
                   data_dir_inode_mapping, mount_point_inode_mapping, wfiles, last, plain,
                   cm, convert>>

LsNext == LsReaddir \/ LsRewind

SpecList == LsInit /\ [][LsNext]_vars

\* the entries of the root that are neither a directory nor a regular file
LsOther == {e \in read_dir(fs, data_dir) : fs[e].kind \notin {"dir", "file"}}

\* the names a listing of the root has to show: those of the directories and
\* regular files that readdir does not hide
LsVisible ==
    {Unwrap(ReaddirName(FUSE_ROOT_ID, e)) :
       e \in {x \in read_dir(fs, data_dir) \ LsOther : IsSome(ReaddirName(FUSE_ROOT_ID, x))}}

\* the names of the sequence `q`
Range(q) == {q[i] : i \in 1..Len(q)}

\* C32: a readdir from offset 0 of a root that holds an entry which is
\* neither a directory nor a regular file succeeds, and a reply buffer that
\* takes every entry then holds the visible entries and not that entry.
C32_OtherKindsSkipped ==
    LsOther # {} =>
       LET r == readdir_at(FUSE_ROOT_ID, data_dir, rt.order, 0, Len(rt.order))
       IN /\ r.err = "ok"
          /\ Range([i \in 1..Len(r.reply) |-> r.reply[i].name]) = LsVisible
          /\ \A i \in 1..Len(r.reply) : join(data_dir, r.reply[i].name) \notin LsOther

\* the chain has emitted no name twice and, when it has ended, every visible
\* name
ChainExact ==
    /\ \A i, j \in 1..Len(rt.seen) : rt.seen[i] = rt.seen[j] => i = j
    /\ Range(rt.seen) \subseteq LsVisible
    /\ rt.state = "end" => Range(rt.seen) = LsVisible

\* C33: a chain of readdir calls over the unchanged root, whatever the
\* capacities of the reply buffers, is not cut short, emits no visible entry
\* twice and has emitted every visible entry when it ends.
C33_ChainExact == rt.state # "error" /\ ChainExact

\* the chains over a root whose entries are all directories or regular files
ChainExactOfKnownKinds == LsOther = {} => C33_ChainExact

-----------------------------------------------------------------------------
(* InodeCache of cache.rs: inode_db maps a u128 key to a record, and every *)
(* entry is stored under two keys, the mount-point inode in the upper and  *)
(* the data-dir inode in the lower 64 bits.  A key is modelled as the pair *)
(* of its halves, a record as what make_data packs: the two inode numbers  *)
(* and the path.  The cache is the record [new_inode_idx, inode_db].       *)

Inode(mount_point_inode, data_dir_inode) ==
    [mount_point_inode |-> mount_point_inode, data_dir_inode |-> data_dir_inode]

\* Inode::new_mp, Inode::new_dd: the other component defaults to 0
new_mp(mount_point_inode) == Inode(mount_point_inode, 0)
new_dd(data_dir_inode) == Inode(0, data_dir_inode)

\* u128::from(mount_point_inode) << 64 and u128::from(data_dir_inode)
mount_point_key(ino) == <<ino.mount_point_inode, 0>>
data_dir_key(ino) == <<0, ino.data_dir_inode>>

make_data(inode, value) == <<inode.mount_point_inode, inode.data_dir_inode, value>>

\* (mount-point inode, data-dir inode, path) of a record
extract_data(data) == [first |-> data[1], second |-> data[2], path |-> data[3]]

\* LruCache::get
db_get(db, key) == IF key \in DOMAIN db THEN Some(db[key]) ELSE None

\* InodeCache::new_inode_number
new_inode_number(idx) ==
    LET top == IF idx - 1 <= FUSE_ROOT_ID THEN U64_MAX ELSE idx
    IN top - 1

\* InodeCache::make_path_str; None is the EIO of two empty parts
make_path_str(path, name) ==
    IF path # <<>> /\ name # "" THEN Some(Append(path, name))
    ELSE IF path = <<>> /\ name # "" THEN Some(<<name>>)
    ELSE IF path # <<>> /\ name = "" THEN Some(path)
    ELSE None

\* a del_inode_path that removes the record under the mount-point key only
cache_del_inode_path_mp_only(db, ino) == Del(db, mount_point_key(ino))

\* InodeCache::del_inode_path on inode_db
cache_del_inode_path(db, ino) ==
    LET by_mp == db_get(db, mount_point_key(ino))
        d1 == IF IsSome(by_mp)
              THEN Del(Del(db, mount_point_key(ino)),
                       data_dir_key(new_dd(extract_data(Unwrap(by_mp)).second)))
              ELSE db
        by_dd == db_get(d1, data_dir_key(ino))
    IN IF IsSome(by_dd)
       THEN Del(Del(d1, data_dir_key(ino)),
                mount_point_key(new_mp(extract_data(Unwrap(by_dd)).first)))
       ELSE d1

\* InodeCache::get_inode_path: the inode_db it leaves and the path, None for
\* ENOENT
cache_get_inode_path(db, ino) ==
    LET data_mp == db_get(db, mount_point_key(ino))
        data_dd == db_get(db, data_dir_key(ino))
    IN IF IsSome(data_mp) /\ IsSome(data_dd)
       THEN IF data_mp = data_dd
            THEN [db |-> db, res |-> Some(extract_data(Unwrap(data_mp)).path)]
            ELSE LET a == extract_data(Unwrap(data_mp))
                     b == extract_data(Unwrap(data_dd))
                     d1 == cache_del_inode_path(db, new_dd(a.second))
                     d2 == cache_del_inode_path(d1, new_mp(a.first))
                     d3 == cache_del_inode_path(d2, new_dd(b.second))
                     d4 == cache_del_inode_path(d3, new_mp(b.first))
                 IN [db |-> cache_del_inode_path(d4, ino), res |-> None]
       ELSE IF IsSome(data_dd)
       THEN LET other == data_dir_key(new_mp(extract_data(Unwrap(data_dd)).first))
            IN [db |-> IF ~IsSome(db_get(db, other)) THEN Put(db, other, Unwrap(data_dd))
                       ELSE db,
                res |-> Some(extract_data(Unwrap(data_dd)).path)]
       ELSE IF IsSome(data_mp)
       THEN LET other == data_dir_key(new_dd(extract_data(Unwrap(data_mp)).second))
            IN [db |-> IF ~IsSome(db_get(db, other)) THEN Put(db, other, Unwrap(data_mp))
                       ELSE db,
                res |-> Some(extract_data(Unwrap(data_mp)).path)]
       ELSE [db |-> db, res |-> None]

\* the two inserts of a record for `inode`
InsertBoth(db, inode, path_data) ==
    Put(Put(db, data_dir_key(inode), make_data(inode, path_data)),
        mount_point_key(inode), make_data(inode, path_data))

\* InodeCache::set_inode_path: the cache it leaves, the mount-point inode it
\* returns and its errno.  With an unset mount-point inode and a record
\* under the data-dir key, the record is destructured as (dd_ino, mp_ino, _).
cache_set_inode_path(c, ino, path, name) ==
    IF ino.data_dir_inode = 0 THEN [c |-> c, res |-> None, err |-> "ENOENT"]
    ELSE IF ~IsSome(make_path_str(path, name)) THEN [c |-> c, res |-> None, err |-> "EIO"]
    ELSE LET path_data == Unwrap(make_path_str(path, name))
             db == c.inode_db
         IN IF ino.mount_point_inode = 0
            THEN IF IsSome(db_get(db, data_dir_key(ino)))
                 THEN LET data == extract_data(Unwrap(db_get(db, data_dir_key(ino))))
                          dd_ino == data.first
                          mp_ino == data.second
                          d1 == cache_del_inode_path(db, new_mp(mp_ino))
                          d2 == cache_del_inode_path(d1, new_dd(dd_ino))
                          d3 == cache_del_inode_path(d2, ino)
                          inode == Inode(mp_ino, ino.data_dir_inode)
                      IN [c |-> [c EXCEPT !.inode_db = InsertBoth(d3, inode, path_data)],
                          res |-> Some(inode.mount_point_inode), err |-> "ok"]
                 ELSE LET d1 == cache_del_inode_path(db, ino)
                          mp_ino == new_inode_number(c.new_inode_idx)
                          inode == Inode(mp_ino, ino.data_dir_inode)
                      IN [c |-> [new_inode_idx |-> mp_ino,
                                 inode_db |-> InsertBoth(d1, inode, path_data)],
                          res |-> Some(inode.mount_point_inode), err |-> "ok"]
            ELSE [c |-> [c EXCEPT !.inode_db =
                           InsertBoth(cache_del_inode_path(db, ino), ino, path_data)],
                  res |-> Some(ino.mount_point_inode), err |-> "ok"]

-----------------------------------------------------------------------------
(* The inode cache driven through its three operations with any Inode, and *)
(* entries expiring one key at a time.  inode_cache is the InodeCache; rt  *)
(* keeps the sets that succeeded, oldest first, as the inode the record    *)
(* was stored under and its path, and whether an entry has expired.        *)

CaMaxSets == 2       \* sets that succeed in one run

CaMps == {0, 2, U64_MAX - 1}
CaDds == {0, 2, 3}
CaInodes == {Inode(m, d) : m \in CaMps, d \in CaDds}
CaDirs == {<<>>, <<"x">>}
CaNames == {"", "a"}

\* the inodes with both components set
CaFull == {ino \in CaInodes : ino.mount_point_inode # 0 /\ ino.data_dir_inode # 0}

CaInit ==
    /\ inode_cache = [new_inode_idx |-> U64_MAX, inode_db |-> Empty]
    /\ rt = [sets |-> <<>>, expired |-> FALSE]
    /\ fs = (cache_path :> NewDir(1))
    /\ convert = FALSE
    /\ inode_idx = U64_MAX
    /\ root_ino_idx = None
    /\ compression_level = 0
    /\ handlers = Empty
    /\ data_dir_inode_mapping = Empty
    /\ mount_point_inode_mapping = Empty
    /\ wfiles = Empty
    /\ last = Served("init", -1, "none")
    /\ plain = Empty
    /\ cm = NoCommit

CaIdle ==
    UNCHANGED <<fs, convert, inode_idx, root_ino_idx, compression_level, handlers,
                data_dir_inode_mapping, mount_point_inode_mapping, wfiles, last, plain, cm>>

CaSet ==
    /\ Len(rt.sets) < CaMaxSets
    /\ \E ino \in CaInodes, path \in CaDirs, name \in CaNames :
          LET r == cache_set_inode_path(inode_cache, ino, path, name)
          IN /\ inode_cache' = r.c
             /\ rt' = IF r.err = "ok"
                      THEN [rt EXCEPT !.sets =
                              Append(rt.sets,
                                     [ino |-> Inode(Unwrap(r.res), ino.data_dir_inode),
                                      path |-> Unwrap(make_path_str(path, name))])]
                      ELSE rt
    /\ CaIdle

CaGet ==
    /\ \E ino \in CaInodes :
          inode_cache' = [inode_cache EXCEPT
                            !.inode_db = cache_get_inode_path(inode_cache.inode_db, ino).db]
    /\ UNCHANGED rt
    /\ CaIdle

CaDel ==
    /\ \E ino \in CaInodes :
          inode_cache' = [inode_cache EXCEPT
                            !.inode_db = cache_del_inode_path(inode_cache.inode_db, ino)]
    /\ UNCHANGED rt
    /\ CaIdle

\* the record under one key has outlived TTL + 1 s
CaExpire ==
    /\ \E key \in DOMAIN inode_cache.inode_db :
          inode_cache' = [inode_cache EXCEPT !.inode_db = Del(inode_cache.inode_db, key)]
    /\ rt' = [rt EXCEPT !.expired = TRUE]
    /\ CaIdle

CaNext == CaSet \/ CaGet \/ CaDel \/ CaExpire

SpecCache == CaInit /\ [][CaNext]_vars

SetMatches(i, ino) ==
    \/ ino.mount_point_inode # 0 /\ rt.sets[i].ino.mount_point_inode = ino.mount_point_inode
    \/ ino.data_dir_inode # 0 /\ rt.sets[i].ino.data_dir_inode = ino.data_dir_inode

\* a get for `ino` finds nothing or the path of the last set that matches it
GetOfLastSet(ino) ==
    LET g == cache_get_inode_path(inode_cache.inode_db, ino)
    IN \/ g.res = None
       \/ \E i \in 1..Len(rt.sets) :
             /\ SetMatches(i, ino)
             /\ \A j \in (i + 1)..Len(rt.sets) : ~SetMatches(j, ino)
             /\ g.res = Some(rt.sets[i].path)

\* every record in inode_db is the one under its mount-point key and the one
\* under its data-dir key
UnderBothKeys ==
    \A key \in DOMAIN inode_cache.inode_db :
       LET data == inode_cache.inode_db[key]
           inode == Inode(extract_data(data).first, extract_data(data).second)
       IN /\ db_get(inode_cache.inode_db, mount_point_key(inode)) = Some(data)
          /\ db_get(inode_cache.inode_db, data_dir_key(inode)) = Some(data)

\* C39: after any sequence of set, get and del with no entry expired, a get
\* for any inode finds nothing or the path of the most recent set for its
\* mount-point or data-dir inode, and every record of the cache is stored
\* under both of its keys.
C39_GetNeverForeign ==
    ~rt.expired => /\ \A ino \in CaInodes : GetOfLastSet(ino)
                   /\ UnderBothKeys

\* C40: in every state of the cache, a set with an unset mount-point inode
\* for a data-dir inode that has a record succeeds, returns the mount-point
\* inode of that record and leaves the new path stored under that
\* mount-point inode and the data-dir inode.
C40_ZeroMpKeepsInode ==
    \A d \in CaDds \ {0}, path \in CaDirs, name \in CaNames :
       LET old == db_get(inode_cache.inode_db, data_dir_key(new_dd(d)))
       IN (IsSome(old) /\ IsSome(make_path_str(path, name))) =>
             LET s == cache_set_inode_path(inode_cache, new_dd(d), path, name)
                 kept == Inode(extract_data(Unwrap(old)).first, d)
                 data == make_data(kept, Unwrap(make_path_str(path, name)))
             IN /\ s.err = "ok"
                /\ s.res = Some(kept.mount_point_inode)
                /\ db_get(s.c.inode_db, mount_point_key(kept)) = Some(data)
                /\ db_get(s.c.inode_db, data_dir_key(kept)) = Some(data)

-----------------------------------------------------------------------------
(* A data directory that holds a compressed file without any xattr         *)
(* (tests/convert.rs: already_compressed.txt.zst is written by the host),  *)
(* mounted with or without --convert, then looked up, opened, written and  *)
(* released.  rt keeps the bytes the file held when it was mounted.        *)

FiMaxLen == 2        \* longest content of the file at mount time
FiMaxOpen == 2       \* file handles open at the same time
FiMaxAlloc == 1      \* mount inodes handed out in one run

FiName == "a"
FiPath == join(data_dir, Zst(FiName))
FiInos == (U64_MAX - FiMaxAlloc)..U64_MAX

FiInit ==
    /\ convert \in BOOLEAN
    /\ \E packed \in SeqsUpTo(FiMaxLen) :
          /\ fs = [p \in {cache_path, FiPath} |->
                     IF p = cache_path THEN NewDir(1)
                     ELSE [NewFile(2) EXCEPT !.blob = Encode(packed, 0), !.synced = TRUE]]
          /\ rt = [packed |-> packed]
    /\ inode_idx = U64_MAX
    /\ root_ino_idx = None
    /\ compression_level = 0
    /\ inode_cache = Empty
    /\ handlers = Empty
    /\ data_dir_inode_mapping = Empty
    /\ mount_point_inode_mapping = Empty
    /\ wfiles = Empty
    /\ last = Served("init", -1, "none")
    /\ plain = Empty
    /\ cm = NoCommit

FiIdle ==
    /\ U64_MAX - inode_idx' <= FiMaxAlloc
    /\ UNCHANGED <<last, plain, cm, convert, rt>>

FiLookup ==
    /\ lookup_wrapper(FUSE_ROOT_ID, FiName)
    /\ FiIdle

FiOpen ==
    /\ HasRoom(FiMaxOpen)
    /\ \E ino \in FiInos : open_wrapper(ino, [append |-> FALSE])
    /\ FiIdle

FiWrite ==
    /\ \E fh \in OpenFhs, data \in Contents :
          /\ Fits(fh, 0, data, FiMaxLen)
          /\ write_wrapper(AnyIno, fh, 0, data)
    /\ FiIdle

FiRelease ==
    /\ \E fh \in OpenFhs : Synced(release_wrapper(AnyIno, fh, HostNext(fs), NoFault))
    /\ FiIdle

\* the entry of an inode leaves the inode cache
FiExpire ==
    /\ \E ino \in DOMAIN inode_cache : Evict(ino)
    /\ FiIdle

FiNext == FiLookup \/ FiOpen \/ FiWrite \/ FiRelease \/ FiExpire

SpecFill == FiInit /\ [][FiNext]_vars

\* while the object carries no user.real_size, lookup leaves it without one
\* and replies size 0, and getattr replies size 0
FiUnsizedReadsZero ==
    (FiPath \in DOMAIN fs /\ fs[FiPath].real_size = None) =>
       /\ \A l \in lookup_result(FUSE_ROOT_ID, FiName) :
             /\ l.ino # 0
             /\ join(l.dir, l.entry) = FiPath
             /\ l.fs[FiPath].real_size = None
             /\ update_realsize(l.fs[FiPath]) = 0
       /\ \A ino \in FiInos : getattr_reply(ino) \subseteq {Some(0), None}

\* a step that adds a handle on the object while it carries no
\* user.real_size stores the length of the decoded frame there and changes
\* nothing else in the data directory
FiOpenFillsSize ==
    \A fh \in DOMAIN handlers' \ DOMAIN handlers :
       (/\ IsSome(handlers'[fh].refs)
        /\ Unwrap(handlers'[fh].refs).path = FiPath
        /\ FiPath \in DOMAIN fs
        /\ fs[FiPath].real_size = None)
          => /\ fs'[FiPath].real_size = Some(Len(Unwrap(Decode(fs[FiPath].blob))))
             /\ fs'[FiPath].real_size = Some(Len(rt.packed))
             /\ DOMAIN fs' = DOMAIN fs
             /\ join(data_dir, FiName) \notin DOMAIN fs'
             /\ fs'[FiPath].blob = fs[FiPath].blob

\* C35: a compressed object without user.real_size is reported with size 0
\* by lookup and getattr; the first open of it stores the length of the
\* decoded stream in user.real_size and creates no file without the suffix.
C35_SizeFilledByOpen == [](FiUnsizedReadsZero) /\ [][FiOpenFillsSize]_vars

\* the object of two bytes was opened for the first time: it carries
\* user.real_size 2 and the working file holds its bytes
C35_Witness ==
    /\ Len(rt.packed) = FiMaxLen
    /\ fs[FiPath].real_size = Some(FiMaxLen)
    /\ \E fh \in DOMAIN handlers : wfiles[handlers[fh].file] = rt.packed
    /\ fs[FiPath].blob = Encode(rt.packed, 0)

====
